---------------------------- MODULE Spec2Model ----------------------------
(***************************************************************************)
(* A model of the simulation core of the bomberman clone: the Grid and its *)
(* explosion propagation, the bomb / explosion managers, the power-up      *)
(* manager, the player, and the per-frame update of the game scene.        *)
(*                                                                         *)
(* Units: time is counted in milliseconds (the game loop obtains dt from   *)
(* pygame's clock in milliseconds and divides by 1000), positions are      *)
(* counted in pixels.  Radii that the code scales by 0.7 / 0.8 are kept in *)
(* tenths of a pixel so that every comparison stays in the integers.       *)
(***************************************************************************)
EXTENDS Integers, Sequences, FiniteSets, TLC

(***************************************************************************)
(* Bounds of the model: the width and height of the grid (13 x 11 in the   *)
(* game scene), the largest power of a queried blast, and the number of    *)
(* power-ups a level gives out, and the largest number of active effects   *)
(* of a queried bonus.                                                     *)
(***************************************************************************)
GridW == 7
GridH == 5
MaxPower == 2
MaxPowerups == 1
MaxEffects == 3

(***************************************************************************)
(* Program constants (src/constants.py).                                   *)
(***************************************************************************)
SCREEN_WIDTH == 800
SCREEN_HEIGHT == 600
GRID_WIDTH == 13
GRID_HEIGHT == 11
TILE_SIZE == 48
PLAYER_SIZE == 36
PLAYER_SPEED_DEFAULT == 150
ENEMY_SIZE == 32
BOMB_FUSE_TIME == 2000
EXPLOSION_DURATION == 300
INITIAL_BOMB_POWER == 1
INITIAL_BOMB_COUNT == 1
MAX_BOMB_POWER == 4
MAX_BOMB_COUNT == 3

EMPTY == 0
HARD_WALL == 1
SOFT_WALL == 2
EXIT == 3

CT_NONE == 0
CT_WALL == 1
CT_BOMB == 2

FIRE_INCREASE == "fire_increase"
BOMB_INCREASE == "bomb_increase"
SPEED_INCREASE == "speed_increase"

Min(a, b) == IF a < b THEN a ELSE b
Max(a, b) == IF a > b THEN a ELSE b
Abs(a) == IF a < 0 THEN -a ELSE a
Sgn(a) == IF a > 0 THEN 1 ELSE IF a < 0 THEN -1 ELSE 0

RECURSIVE GCD(_, _)
GCD(a, b) == IF b = 0 THEN a ELSE GCD(b, a % b)

Cells == (0 .. GridW - 1) \X (0 .. GridH - 1)

\* None where the code expects a cell.
NoCell == << -1, -1 >>

(***************************************************************************)
(* Grid (src/grid.py).  A grid value g is the array Grid._tiles, a         *)
(* function from cells <<x, y>> to tile types.                             *)
(***************************************************************************)
offset_x == (SCREEN_WIDTH - GRID_WIDTH * TILE_SIZE) \div 2
offset_y == (SCREEN_HEIGHT - GRID_HEIGHT * TILE_SIZE) \div 2

_clamp_grid(grid_x, grid_y) ==
    << Max(0, Min(grid_x, GridW - 1)), Max(0, Min(grid_y, GridH - 1)) >>

pixel_to_grid(pixel_x, pixel_y) ==
    _clamp_grid((pixel_x - offset_x) \div TILE_SIZE,
                (pixel_y - offset_y) \div TILE_SIZE)

grid_to_pixel(grid_x, grid_y) ==
    << offset_x + grid_x * TILE_SIZE + TILE_SIZE \div 2,
       offset_y + grid_y * TILE_SIZE + TILE_SIZE \div 2 >>

get_tile(g, grid_x, grid_y) == g[_clamp_grid(grid_x, grid_y)]

is_valid_grid(grid_x, grid_y) ==
    0 <= grid_x /\ grid_x < GridW /\ 0 <= grid_y /\ grid_y < GridH

set_tile(g, grid_x, grid_y, tile_type) ==
    IF is_valid_grid(grid_x, grid_y)
    THEN [g EXCEPT ![<<grid_x, grid_y>>] = tile_type]
    ELSE g

is_wall(g, grid_x, grid_y) ==
    get_tile(g, grid_x, grid_y) \in {HARD_WALL, SOFT_WALL}

is_soft_wall(g, grid_x, grid_y) == get_tile(g, grid_x, grid_y) = SOFT_WALL

is_empty(g, grid_x, grid_y) ==
    get_tile(g, grid_x, grid_y) = EMPTY \/ get_tile(g, grid_x, grid_y) = EXIT

has_bomb(gb, grid_x, grid_y) == <<grid_x, grid_y>> \in gb

\* Variant: a placement that registers nothing.
add_bomb_nowhere(gb, grid_x, grid_y) == gb

add_bomb(gb, grid_x, grid_y) == gb \cup { <<grid_x, grid_y>> }

remove_bomb(gb, grid_x, grid_y) == gb \ { <<grid_x, grid_y>> }

can_place_bomb(g, gb, grid_x, grid_y) ==
    is_empty(g, grid_x, grid_y) /\ ~has_bomb(gb, grid_x, grid_y)

\* Variants: a destruction that leaves the wall standing, and one that
\* forgets the exit.
destroy_soft_wall_keep(g, grid_x, grid_y, exit_p) == g

destroy_soft_wall_no_exit(g, grid_x, grid_y, exit_p) ==
    IF is_soft_wall(g, grid_x, grid_y)
    THEN set_tile(g, grid_x, grid_y, EMPTY)
    ELSE g

\* Grid.destroy_soft_wall: the success flag ...
destroy_ok(g, grid_x, grid_y) == is_soft_wall(g, grid_x, grid_y)

\* ... and the tile array after the call.
destroy_soft_wall(g, grid_x, grid_y, exit_p) ==
    IF is_soft_wall(g, grid_x, grid_y)
    THEN IF grid_x = exit_p[1] /\ grid_y = exit_p[2]
         THEN set_tile(g, grid_x, grid_y, EXIT)
         ELSE set_tile(g, grid_x, grid_y, EMPTY)
    ELSE g

\* ... and the soft-wall set after the call.
destroy_soft_wall_set(g, sw, grid_x, grid_y) ==
    IF is_soft_wall(g, grid_x, grid_y) THEN sw \ { <<grid_x, grid_y>> } ELSE sw

\* Variant: an arm that a soft wall does not stop.
RECURSIVE explosion_arm_through_soft(_, _, _, _, _, _, _)
explosion_arm_through_soft(g, center_x, center_y, dx, dy, i, power) ==
    IF i > power THEN << >>
    ELSE LET tx == center_x + dx * i
             ty == center_y + dy * i
         IN  IF ~is_valid_grid(tx, ty) THEN << >>
             ELSE IF get_tile(g, tx, ty) = HARD_WALL THEN << >>
             ELSE << <<tx, ty>> >>
                  \o explosion_arm_through_soft(g, center_x, center_y, dx, dy,
                                                i + 1, power)

\* One arm of Grid.get_explosion_tiles: the inner loop from step i on.
RECURSIVE explosion_arm(_, _, _, _, _, _, _)
explosion_arm(g, center_x, center_y, dx, dy, i, power) ==
    IF i > power THEN << >>
    ELSE LET tx == center_x + dx * i
             ty == center_y + dy * i
         IN  IF ~is_valid_grid(tx, ty) THEN << >>
             ELSE IF get_tile(g, tx, ty) = HARD_WALL THEN << >>
             ELSE IF get_tile(g, tx, ty) = SOFT_WALL THEN << <<tx, ty>> >>
             ELSE << <<tx, ty>> >>
                  \o explosion_arm(g, center_x, center_y, dx, dy, i + 1, power)

\* Variant: the blast without its last arm.
get_explosion_tiles_three_arms(g, center_x, center_y, power) ==
    << <<center_x, center_y>> >>
    \o explosion_arm(g, center_x, center_y, 0, 1, 1, power)
    \o explosion_arm(g, center_x, center_y, 0, -1, 1, power)
    \o explosion_arm(g, center_x, center_y, 1, 0, 1, power)

get_explosion_tiles(g, center_x, center_y, power) ==
    << <<center_x, center_y>> >>
    \o explosion_arm(g, center_x, center_y, 0, 1, 1, power)
    \o explosion_arm(g, center_x, center_y, 0, -1, 1, power)
    \o explosion_arm(g, center_x, center_y, 1, 0, 1, power)
    \o explosion_arm(g, center_x, center_y, -1, 0, 1, power)

Range(s) == {s[i] : i \in 1 .. Len(s)}


(***************************************************************************)
(* State.                                                                  *)
(*   tiles, soft_walls, grid_bombs : Grid._tiles, Grid._soft_walls,        *)
(*                                   Grid._bombs                           *)
(*   bombs       : BombManager._bombs, a list of Bomb records              *)
(*   explosions  : ExplosionManager._explosions                            *)
(*   powerups, effects : PowerupManager._powerups / ._active_effects       *)
(*   player      : the Player object                                       *)
(*   game_over, victory : GameScene flags                                  *)
(*   exit_pos    : the exit descriptor of the loaded level                 *)
(*   exploded_bombs : what BombManager.update returned in the last update  *)
(*   new_explosions : the explosions create_explosion appended in the last *)
(*                    update, in the order of exploded_bombs               *)
(*   spawned_powerups : what Spawner.spawn_powerups_from_soft_walls        *)
(*                    returned in the last update                          *)
(*   last        : the kind of the last operation: "load", "update" or     *)
(*                 "trigger"                                               *)
(*   q, r        : argument and result of the last query (SpecGrid only)   *)
(***************************************************************************)
VARIABLES tiles, soft_walls, grid_bombs, bombs, explosions, powerups,
          effects, player, game_over, victory, exit_pos,
          exploded_bombs, new_explosions, spawned_powerups, last, q, r,
          enemies, dead_enemies, level_data

vars == << tiles, soft_walls, grid_bombs, bombs, explosions, powerups,
           effects, player, game_over, victory, exit_pos,
           exploded_bombs, new_explosions, spawned_powerups, last, q, r,
           enemies, dead_enemies, level_data >>

(***************************************************************************)
(* The level description handed to Spawner.load_level: a corridor of open   *)
(* cells inside hard walls closed by two soft walls at (4,2) and (5,2),    *)
(* the player start at (1,2), no enemies, and power-up types restricted to *)
(* fire / bomb.  The exit is hidden under (4,2) or visible at (5,2).       *)
(*                                                                         *)
(*        x: 0 1 2 3 4 5 6                                                 *)
(*    y=1    # # # # # # #                                                 *)
(*    y=2    # @ _ _ . . #                                                 *)
(*    y=3    # # # # # # #                                                 *)
(***************************************************************************)
LevelOpen == { <<1, 2>>, <<2, 2>>, <<3, 2>> }
LevelSoft == { <<4, 2>>, <<5, 2>> }
LevelPlayerStart == <<1, 2>>
LevelPowerupTypes == { FIRE_INCREASE, BOMB_INCREASE }
\* The level data GameScene keeps: the drop rate of power-ups in percent
\* (0.3 when the level does not give one).
DefaultLevel == [powerup_drop_rate |-> 30]
\* exit descriptors: [col, row, hidden_under_soft_wall]
LevelExits == { [col |-> 4, row |-> 2, hidden |-> TRUE],
                [col |-> 5, row |-> 2, hidden |-> FALSE] }

\* Grid.load_from_data on the level's tile rows.
load_from_data ==
    [c \in Cells |-> IF c \in LevelSoft THEN SOFT_WALL
                     ELSE IF c \in LevelOpen THEN EMPTY
                     ELSE HARD_WALL]

\* Spawner.load_level: the tile array once the exit has been set.
load_level(exit_data) ==
    IF exit_data.hidden
    THEN IF is_soft_wall(load_from_data, exit_data.col, exit_data.row)
         THEN load_from_data
         ELSE set_tile(load_from_data, exit_data.col, exit_data.row, SOFT_WALL)
    ELSE set_tile(load_from_data, exit_data.col, exit_data.row, EXIT)

\* Spawner.load_level: Grid._soft_walls once the exit has been set.
\* add_soft_wall adds the cell to the set whether or not it lies in the grid.
load_level_soft_walls(exit_data) ==
    {c \in Cells : load_from_data[c] = SOFT_WALL}
    \cup (IF exit_data.hidden
             /\ ~is_soft_wall(load_from_data, exit_data.col, exit_data.row)
          THEN { <<exit_data.col, exit_data.row>> } ELSE {})

\* Spawner.load_level: whether the call ends in an exception.  The exit is
\* read with dict.get and set through is_soft_wall (get_tile clamps its
\* coordinates), add_soft_wall and set_tile (which skips a cell outside the
\* grid); no statement validates the cell and none raises.
load_level_raises(exit_data) == FALSE

(***************************************************************************)
(* Collision (src/collision.py).  Radii are in tenths of a pixel.          *)
(***************************************************************************)
_circle_overlaps_tile(cx, cy, radius10, tile_x, tile_y) ==
    LET tile_px == offset_x + tile_x * TILE_SIZE
        tile_py == offset_y + tile_y * TILE_SIZE
        dist_x == cx - Max(tile_px, Min(cx, tile_px + TILE_SIZE))
        dist_y == cy - Max(tile_py, Min(cy, tile_py + TILE_SIZE))
    IN  100 * (dist_x * dist_x + dist_y * dist_y) < radius10 * radius10

\* The neighbour loop of check_circle_to_grid, from neighbour k on.
RECURSIVE neighbour_scan(_, _, _, _, _, _, _, _)
neighbour_scan(g, gb, cx, cy, radius10, check_bombs, nbrs, k) ==
    IF k > Len(nbrs) THEN CT_NONE
    ELSE LET nx == nbrs[k][1]
             ny == nbrs[k][2]
         IN  IF ~is_valid_grid(nx, ny)
             THEN neighbour_scan(g, gb, cx, cy, radius10, check_bombs, nbrs, k + 1)
             ELSE IF is_wall(g, nx, ny)
                     /\ _circle_overlaps_tile(cx, cy, radius10, nx, ny)
             THEN CT_WALL
             ELSE IF check_bombs /\ has_bomb(gb, nx, ny)
             THEN CT_BOMB
             ELSE neighbour_scan(g, gb, cx, cy, radius10, check_bombs, nbrs, k + 1)

\* CollisionSystem.check_circle_to_grid: the type of the CollisionInfo.
check_circle_to_grid(g, gb, center_x, center_y, radius10, check_bombs) ==
    LET gp == pixel_to_grid(center_x, center_y)
        grid_x == gp[1]
        grid_y == gp[2]
    IN  IF is_wall(g, grid_x, grid_y) THEN CT_WALL
        ELSE IF check_bombs /\ has_bomb(gb, grid_x, grid_y) THEN CT_BOMB
        ELSE neighbour_scan(g, gb, center_x, center_y, radius10, check_bombs,
                            << <<grid_x - 1, grid_y>>, <<grid_x + 1, grid_y>>,
                               <<grid_x, grid_y - 1>>, <<grid_x, grid_y + 1>> >>, 1)

\* CollisionSystem.predict_position: <<x, y, collided>>.
predict_position(g, gb, current_pos, velocity, radius10, check_bombs) ==
    LET new_x == current_pos[1] + velocity[1]
        new_y == current_pos[2] + velocity[2]
    IN  IF check_circle_to_grid(g, gb, new_x, new_y, radius10, check_bombs) # CT_NONE
        THEN << current_pos[1], current_pos[2], TRUE >>
        ELSE << new_x, new_y, FALSE >>

\* Variant: a resolver that does not slide.
resolve_collision_no_slide(g, gb, position, velocity, radius10, check_bombs) ==
    LET pp == predict_position(g, gb, position, velocity, radius10, check_bombs)
    IN  [x |-> pp[1], y |-> pp[2], normal |-> << 0, 0 >>]

\* CollisionSystem.resolve_collision.  The normal is kept as the vector of the
\* signs of its components (the normal against a velocity v is -v / |v|).
resolve_collision(g, gb, position, velocity, radius10, check_bombs) ==
    LET pp == predict_position(g, gb, position, velocity, radius10, check_bombs)
    IN  IF ~pp[3] THEN [x |-> pp[1], y |-> pp[2], normal |-> << 0, 0 >>]
        ELSE LET test_x == predict_position(g, gb, position, << velocity[1], 0 >>,
                                            radius10, check_bombs)[1]
                 test_y == predict_position(g, gb, position, << 0, velocity[2] >>,
                                            radius10, check_bombs)[2]
                 collision_x == check_circle_to_grid(g, gb, test_x, position[2],
                                                     radius10, check_bombs) # CT_NONE
                 collision_y == check_circle_to_grid(g, gb, position[1], test_y,
                                                     radius10, check_bombs) # CT_NONE
             IN  IF ~collision_x /\ collision_y
                 THEN [x |-> test_x, y |-> pp[2],
                       normal |-> IF velocity[1] > 0 THEN << 1, 0 >> ELSE << -1, 0 >>]
                 ELSE IF collision_x /\ ~collision_y
                 THEN [x |-> pp[1], y |-> test_y,
                       normal |-> IF velocity[2] > 0 THEN << 0, 1 >> ELSE << 0, -1 >>]
                 ELSE IF ~collision_x /\ ~collision_y
                 THEN [x |-> test_x, y |-> test_y, normal |-> << 0, 0 >>]
                 ELSE [x |-> position[1], y |-> position[2],
                       normal |-> << -Sgn(velocity[1]), -Sgn(velocity[2]) >>]

(***************************************************************************)
(* Explosions (src/explosion.py).                                          *)
(***************************************************************************)
Explosion(center_x, center_y, tls) ==
    [center_x |-> center_x, center_y |-> center_y, tiles |-> tls, elapsed |-> 0]

create_explosion(g, center_x, center_y, power) ==
    Explosion(center_x, center_y, get_explosion_tiles(g, center_x, center_y, power))

\* Explosion.check_hit_position; radius10 is radius * 10.
check_hit_position(e, pixel_x, pixel_y, radius10) ==
    \E i \in 1 .. Len(e.tiles) :
        LET cx == e.tiles[i][1] * TILE_SIZE + TILE_SIZE \div 2 + offset_x
            cy == e.tiles[i][2] * TILE_SIZE + TILE_SIZE \div 2 + offset_y
            rr == radius10 + 10 * (TILE_SIZE \div 2)
        IN  100 * ((pixel_x - cx) * (pixel_x - cx) + (pixel_y - cy) * (pixel_y - cy))
              < rr * rr

check_any_hit_position(exps, pixel_x, pixel_y, radius10) ==
    \E i \in 1 .. Len(exps) : check_hit_position(exps[i], pixel_x, pixel_y, radius10)

\* ExplosionManager.update: age every explosion, drop those no longer active.
explosions_update(exps, dt) ==
    LET aged == [i \in 1 .. Len(exps) |-> [exps[i] EXCEPT !.elapsed = @ + dt]]
        Active(e) == e.elapsed < EXPLOSION_DURATION
    IN  SelectSeq(aged, Active)


(***************************************************************************)
(* Bombs (src/bomb.py).                                                    *)
(***************************************************************************)
Bomb(grid_x, grid_y, power, owner_id) ==
    [grid_x |-> grid_x, grid_y |-> grid_y, power |-> power, owner_id |-> owner_id,
     elapsed |-> 0, triggered |-> FALSE, exploded |-> FALSE,
     explosion_tiles |-> << >>]

\* Bomb.trigger
bomb_trigger(b) == [b EXCEPT !.triggered = TRUE]

\* Variant: a fuse that ignores the trigger.
fuse_due_timer_only(b) == b.elapsed >= BOMB_FUSE_TIME

\* The test of Bomb.update that decides the explosion (after the fuse timer
\* has been advanced).
fuse_due(b) == b.elapsed >= BOMB_FUSE_TIME \/ b.triggered

\* Bomb.explode: the bomb freezes its tile list against the grid g.
bomb_explode(b, g) ==
    IF b.exploded THEN b
    ELSE [b EXCEPT !.exploded = TRUE,
                   !.explosion_tiles =
                       get_explosion_tiles(g, b.grid_x, b.grid_y, b.power)]

\* Bomb.update: the bomb after the call (the grid's bomb set is handled by
\* the caller below, where the bomb is seen to have exploded).
bomb_update(b, dt, g) ==
    IF b.exploded THEN b
    ELSE LET b1 == [b EXCEPT !.elapsed = @ + dt]
         IN  IF fuse_due(b1) THEN bomb_explode(b1, g) ELSE b1

\* The loop "for tx, ty in bomb.explosion_tiles: grid.destroy_soft_wall(...)".
RECURSIVE destroy_tiles(_, _, _, _)
destroy_tiles(g, tls, k, exit_p) ==
    IF k > Len(tls) THEN g
    ELSE destroy_tiles(destroy_soft_wall(g, tls[k][1], tls[k][2], exit_p),
                       tls, k + 1, exit_p)

\* Variant: a loop in which a bomb standing in the tiles of a bomb that has
\* just exploded is triggered by it.
bm_step_chain(acc, b, dt, exit_p) ==
    IF b.exploded THEN acc
    ELSE LET hit == \E i \in 1 .. Len(acc.exploded) :
                        <<b.grid_x, b.grid_y>>
                            \in Range(acc.exploded[i].explosion_tiles)
             b1 == bomb_update(IF hit THEN bomb_trigger(b) ELSE b, dt, acc.g)
         IN  IF ~b1.exploded
             THEN [acc EXCEPT !.keep = Append(@, b1)]
             ELSE LET g1 == destroy_tiles(acc.g, b1.explosion_tiles, 1, exit_p)
                      e  == create_explosion(g1, b1.grid_x, b1.grid_y, b1.power)
                  IN  [acc EXCEPT
                         !.g = g1,
                         !.sw = @ \ {t \in Range(b1.explosion_tiles) :
                                        destroy_ok(acc.g, t[1], t[2])},
                         !.gb = remove_bomb(@, b1.grid_x, b1.grid_y),
                         !.exps = Append(@, e),
                         !.created = Append(@, e),
                         !.exploded = Append(@, b1)]

\* One iteration of the loop of BombManager.update, on bomb b.  acc carries
\* the grid, the managers' lists and the lists the loop builds.
bm_step(acc, b, dt, exit_p) ==
    IF b.exploded THEN acc
    ELSE LET b1 == bomb_update(b, dt, acc.g)
         IN  IF ~b1.exploded
             THEN [acc EXCEPT !.keep = Append(@, b1)]
             ELSE LET g1 == destroy_tiles(acc.g, b1.explosion_tiles, 1, exit_p)
                      e  == create_explosion(g1, b1.grid_x, b1.grid_y, b1.power)
                  IN  [acc EXCEPT
                         !.g = g1,
                         !.sw = @ \ {t \in Range(b1.explosion_tiles) :
                                        destroy_ok(acc.g, t[1], t[2])},
                         !.gb = remove_bomb(@, b1.grid_x, b1.grid_y),
                         !.exps = Append(@, e),
                         !.created = Append(@, e),
                         !.exploded = Append(@, b1)]

RECURSIVE bm_loop(_, _, _, _, _)
bm_loop(acc, bs, k, dt, exit_p) ==
    IF k > Len(bs) THEN acc
    ELSE bm_loop(bm_step(acc, bs[k], dt, exit_p), bs, k + 1, dt, exit_p)

\* BombManager.update
bomb_manager_update(bs, dt, g, sw, gb, exps, exit_p) ==
    bm_loop([g |-> g, sw |-> sw, gb |-> gb, exps |-> exps,
             keep |-> << >>, created |-> << >>, exploded |-> << >>],
            bs, 1, dt, exit_p)

(***************************************************************************)
(* Power-ups (src/powerup.py).                                             *)
(***************************************************************************)
Powerup(powerup_type, grid_x, grid_y) ==
    [type |-> powerup_type, grid_x |-> grid_x, grid_y |-> grid_y,
     collected |-> FALSE]

\* PowerupEffect.__init__ with duration 0: no timer; speed_multiplier is kept
\* in tenths (12 for 1.2, 10 for 1.0).
PowerupEffect(effect_type) ==
    [type |-> effect_type,
     fire_bonus |-> IF effect_type = FIRE_INCREASE THEN 1 ELSE 0,
     bomb_bonus |-> IF effect_type = BOMB_INCREASE THEN 1 ELSE 0,
     speed_multiplier10 |-> IF effect_type = SPEED_INCREASE THEN 12 ELSE 10]

\* PowerupEffect.__init__ with a duration > 0 (milliseconds): the effect
\* carries a Timer(duration) and its active flag.
PowerupEffectTimed(effect_type, duration) ==
    [type |-> effect_type,
     fire_bonus |-> IF effect_type = FIRE_INCREASE THEN 1 ELSE 0,
     bomb_bonus |-> IF effect_type = BOMB_INCREASE THEN 1 ELSE 0,
     speed_multiplier10 |-> IF effect_type = SPEED_INCREASE THEN 12 ELSE 10,
     duration |-> duration, elapsed |-> 0, active |-> TRUE]

\* "if self.timer": the effect was built with a duration > 0.
has_timer(e) == "duration" \in DOMAIN e

\* PowerupEffect.update followed by _remove_effect when the timer is over.
effect_update(e, dt) ==
    IF ~has_timer(e) THEN e
    ELSE LET e1 == [e EXCEPT !.elapsed = @ + dt]
         IN  IF e1.elapsed >= e1.duration
             THEN [e1 EXCEPT !.active = FALSE, !.fire_bonus = 0,
                             !.bomb_bonus = 0, !.speed_multiplier10 = 10]
             ELSE e1

\* Variant: an update that ages the effects and removes none.
effects_update_keep(effs, dt) ==
    [i \in 1 .. Len(effs) |-> effect_update(effs[i], dt)]

\* PowerupManager.update, the loop over the active effects.
effects_update(effs, dt) ==
    LET aged == [i \in 1 .. Len(effs) |-> effect_update(effs[i], dt)]
        StillActive(e) == ~has_timer(e) \/ e.active
    IN  SelectSeq(aged, StillActive)

\* PowerupManager.get_powerup_at: the index of the first match, 0 for None.
RECURSIVE get_powerup_at(_, _, _, _)
get_powerup_at(pws, grid_x, grid_y, k) ==
    IF k > Len(pws) THEN 0
    ELSE IF pws[k].grid_x = grid_x /\ pws[k].grid_y = grid_y /\ ~pws[k].collected
    THEN k
    ELSE get_powerup_at(pws, grid_x, grid_y, k + 1)

\* PowerupManager.add_effect on the power-up of index k: the returned effect
\* ("None" for a collected power-up) and the two lists after the call.
add_effect(pws, effs, k) ==
    IF pws[k].collected
    THEN [effect |-> "None", powerups |-> pws, effects |-> effs]
    ELSE [effect |-> PowerupEffect(pws[k].type),
          powerups |-> [pws EXCEPT ![k].collected = TRUE],
          effects |-> Append(effs, PowerupEffect(pws[k].type))]

\* Variant: speed multipliers that do not stack (the last one counts).
RECURSIVE get_total_bonus_no_stack(_, _)
get_total_bonus_no_stack(effs, k) ==
    IF k = 0 THEN [fire_bonus |-> 0, bomb_bonus |-> 0, speed_num |-> 1, speed_den |-> 1]
    ELSE LET t == get_total_bonus_no_stack(effs, k - 1)
             m == effs[k].speed_multiplier10
         IN  [fire_bonus |-> t.fire_bonus + effs[k].fire_bonus,
              bomb_bonus |-> t.bomb_bonus + effs[k].bomb_bonus,
              speed_num |-> IF m = 10 THEN t.speed_num ELSE m \div GCD(m, 10),
              speed_den |-> IF m = 10 THEN t.speed_den ELSE 10 \div GCD(m, 10)]

\* PowerupManager.get_total_bonus; the speed multiplier is the fraction
\* speed_num / speed_den, kept in lowest terms.
RECURSIVE get_total_bonus(_, _)
get_total_bonus(effs, k) ==
    IF k = 0 THEN [fire_bonus |-> 0, bomb_bonus |-> 0, speed_num |-> 1, speed_den |-> 1]
    ELSE LET t == get_total_bonus(effs, k - 1)
             n == t.speed_num * effs[k].speed_multiplier10
             d == t.speed_den * 10
         IN  [fire_bonus |-> t.fire_bonus + effs[k].fire_bonus,
              bomb_bonus |-> t.bomb_bonus + effs[k].bomb_bonus,
              speed_num |-> n \div GCD(n, d),
              speed_den |-> d \div GCD(n, d)]

\* Variant: an update that leaves collected power-ups in the list.
powerup_manager_update_keep(pws) == pws

\* PowerupManager.update, the loop over the power-ups: collected power-ups
\* leave the list.
powerup_manager_update(pws) ==
    LET NotCollected(pw) == ~pw.collected
    IN  SelectSeq(pws, NotCollected)

(***************************************************************************)
(* Player (src/player.py).                                                 *)
(***************************************************************************)
PLAYER_ID == 0
\* Cooldown(0.2), in milliseconds
BOMB_COOLDOWN == 200
PlayerRadius == PLAYER_SIZE \div 2 - 2
\* Enemy.radius (src/enemy.py), the radius Enemy._move hands to the resolver
EnemyRadius == ENEMY_SIZE \div 2 - 6

Player(grid_x, grid_y) ==
    [grid_x |-> grid_x, grid_y |-> grid_y,
     x |-> grid_to_pixel(grid_x, grid_y)[1], y |-> grid_to_pixel(grid_x, grid_y)[2],
     alive |-> TRUE, placed_bombs |-> 0,
     bomb_count |-> INITIAL_BOMB_COUNT, bomb_power |-> INITIAL_BOMB_POWER,
     speed |-> PLAYER_SPEED_DEFAULT * 1000, cooldown |-> 0]

\* Variant: a gate that ignores the number of bombs in flight.
player_can_place_bomb_no_limit(p, g, gb) ==
    /\ p.alive
    /\ p.cooldown <= 0
    /\ can_place_bomb(g, gb, p.grid_x, p.grid_y)

\* Player.can_place_bomb
player_can_place_bomb(p, g, gb) ==
    /\ p.alive
    /\ p.placed_bombs < p.bomb_count
    /\ p.cooldown <= 0
    /\ can_place_bomb(g, gb, p.grid_x, p.grid_y)

\* Player.on_bomb_exploded
on_bomb_exploded(p) ==
    IF p.placed_bombs > 0 THEN [p EXCEPT !.placed_bombs = @ - 1] ELSE p

\* One component of "input_direction.normalize() * actual_speed": the full
\* step on a cardinal direction, step / sqrt(2) (to 4 digits) on a diagonal.
move_component(d, other, step) ==
    IF d = 0 THEN 0
    ELSE IF other = 0 THEN d * step
    ELSE d * ((step * 7071) \div 10000)

\* Variant: a move that a bomb on the target tile blocks even when the player
\* stands on a bomb tile.
update_movement_no_exemption(p, g, gb, dt, dir) ==
    LET actual_speed == (p.speed * dt) \div 1000000
        mx == move_component(dir[1], dir[2], actual_speed)
        my == move_component(dir[2], dir[1], actual_speed)
    IN  IF mx = 0 /\ my = 0 THEN p
        ELSE LET new_x == p.x + mx
                 new_y == p.y + my
                 ng == pixel_to_grid(new_x, new_y)
                 collision_x == check_circle_to_grid(g, gb, new_x, p.y,
                                                     PlayerRadius * 8, TRUE)
                 collision_y == check_circle_to_grid(g, gb, p.x, new_y,
                                                     PlayerRadius * 8, TRUE)
                 bomb_ahead == has_bomb(gb, ng[1], ng[2])
                 can_move_x == collision_x # CT_WALL /\ ~(bomb_ahead /\ mx # 0)
                 can_move_y == collision_y # CT_WALL /\ ~(bomb_ahead /\ my # 0)
                 px == IF can_move_x THEN new_x ELSE p.x
                 py == IF can_move_y THEN new_y ELSE p.y
                 fg == pixel_to_grid(px, py)
             IN  [p EXCEPT !.x = px, !.y = py, !.grid_x = fg[1], !.grid_y = fg[2]]

\* Player._update_movement.  speed is in thousandths of a pixel per second,
\* dt in milliseconds.
update_movement(p, g, gb, dt, dir) ==
    LET actual_speed == (p.speed * dt) \div 1000000
        mx == move_component(dir[1], dir[2], actual_speed)
        my == move_component(dir[2], dir[1], actual_speed)
    IN  IF mx = 0 /\ my = 0 THEN p
        ELSE LET on_bomb == has_bomb(gb, p.grid_x, p.grid_y)
                 new_x == p.x + mx
                 new_y == p.y + my
                 ng == pixel_to_grid(new_x, new_y)
                 collision_x == check_circle_to_grid(g, gb, new_x, p.y,
                                                     PlayerRadius * 8, TRUE)
                 collision_y == check_circle_to_grid(g, gb, p.x, new_y,
                                                     PlayerRadius * 8, TRUE)
                 bomb_ahead == ~on_bomb /\ has_bomb(gb, ng[1], ng[2])
                 can_move_x == collision_x # CT_WALL /\ ~(bomb_ahead /\ mx # 0)
                 can_move_y == collision_y # CT_WALL /\ ~(bomb_ahead /\ my # 0)
                 px == IF can_move_x THEN new_x ELSE p.x
                 py == IF can_move_y THEN new_y ELSE p.y
                 fg == pixel_to_grid(px, py)
             IN  [p EXCEPT !.x = px, !.y = py, !.grid_x = fg[1], !.grid_y = fg[2]]

\* Player.update for a living player: returns the player, the power-up list
\* and the effect list after the call.
player_update(p, g, gb, exps, pws, effs, dt, dir) ==
    LET bonuses == get_total_bonus(effs, Len(effs))
        p1 == [p EXCEPT
                 !.cooldown = IF @ > 0 THEN @ - dt ELSE @,
                 !.bomb_count = INITIAL_BOMB_COUNT + bonuses.bomb_bonus,
                 !.bomb_power = INITIAL_BOMB_POWER + bonuses.fire_bonus,
                 !.speed = (PLAYER_SPEED_DEFAULT * 1000 * bonuses.speed_num)
                             \div bonuses.speed_den]
        p2 == update_movement(p1, g, gb, dt, dir)
        hit == check_any_hit_position(exps, p2.x, p2.y, PlayerRadius * 7)
        p3 == IF hit THEN [p2 EXCEPT !.alive = FALSE] ELSE p2
        k  == get_powerup_at(pws, p3.grid_x, p3.grid_y, 1)
    IN  [player |-> p3,
         powerups |-> IF k = 0 THEN pws ELSE add_effect(pws, effs, k).powerups,
         effects |-> IF k = 0 THEN effs ELSE add_effect(pws, effs, k).effects]


(***************************************************************************)
(* Path search (src/ai.py, AStarPathfinder).  The state of a search is a   *)
(* record: frontier, the heap, as the set of its entries <<priority, x,    *)
(* y>> (an entry is pushed for a tile only at a cost lower than any before,*)
(* so no entry occurs twice); came_from and cost_so_far, the dictionaries, *)
(* as functions on the tiles reached; done / found / path, the outcome;    *)
(* pops, the list of the tiles popped so far with the cost and the         *)
(* priority they were popped at.                                           *)
(***************************************************************************)
\* Variant: a heuristic that overestimates the remaining distance.
_heuristic_triple(a, b) == 3 * (Abs(a[1] - b[1]) + Abs(a[2] - b[2]))

\* AStarPathfinder._heuristic
_heuristic(a, b) == Abs(a[1] - b[1]) + Abs(a[2] - b[2])

NeighborDirs == << <<0, 1>>, <<0, -1>>, <<1, 0>>, <<-1, 0>> >>

\* AStarPathfinder._get_neighbors, from direction k on.
RECURSIVE _get_neighbors(_, _, _, _, _)
_get_neighbors(g, gb, pos, avoid_bombs, k) ==
    IF k > Len(NeighborDirs) THEN << >>
    ELSE LET nx == pos[1] + NeighborDirs[k][1]
             ny == pos[2] + NeighborDirs[k][2]
             rest == _get_neighbors(g, gb, pos, avoid_bombs, k + 1)
         IN  IF ~is_valid_grid(nx, ny) THEN rest
             ELSE IF is_empty(g, nx, ny) /\ ~(avoid_bombs /\ has_bomb(gb, nx, ny))
             THEN << <<nx, ny>> >> \o rest
             ELSE rest

\* The order of the heap entries: Python compares (priority, (x, y)).
heap_less(a, b) ==
    \/ a[1] < b[1]
    \/ a[1] = b[1] /\ a[2] < b[2]
    \/ a[1] = b[1] /\ a[2] = b[2] /\ a[3] < b[3]

heappop(frontier) ==
    CHOOSE e \in frontier : \A f \in frontier \ {e} : heap_less(e, f)

\* d[k] = v on a dictionary d.
dict_set(d, k, v) == [x \in DOMAIN d \cup {k} |-> IF x = k THEN v ELSE d[x]]

\* AStarPathfinder._reconstruct_path, from the tile current backwards.
RECURSIVE _reconstruct_path(_, _, _, _)
_reconstruct_path(came_from, start, current, path) ==
    IF current = start THEN path
    ELSE IF came_from[current] = NoCell THEN << >>
    ELSE _reconstruct_path(came_from, start, came_from[current],
                           << came_from[current] >> \o path)

\* The state of find_path on entering its loop.
find_path_init(start) ==
    [frontier |-> { <<0, start[1], start[2]>> },
     came_from |-> [c \in {start} |-> NoCell],
     cost_so_far |-> [c \in {start} |-> 0],
     done |-> FALSE, found |-> FALSE, path |-> << >>, pops |-> << >>]

\* The element of a one-element set.  In the operators below a value that
\* is used more than once is bound as the element of a one-element set, so
\* that it is computed once.
The(S) == CHOOSE x \in S : TRUE

\* Variant: a loop over the neighbours that also queues a tile again at an
\* equal cost.
RECURSIVE find_path_relax_equal(_, _, _, _, _)
find_path_relax_equal(st, current, nbrs, k, goal) ==
    IF k > Len(nbrs) THEN st
    ELSE The({ find_path_relax_equal(st2, current, nbrs, k + 1, goal) :
                 st2 \in { LET next_pos == nbrs[k]
                               new_cost == st.cost_so_far[current] + 1
                           IN  IF next_pos \notin DOMAIN st.cost_so_far
                                  \/ new_cost <= st.cost_so_far[next_pos]
                               THEN [st EXCEPT
                                       !.cost_so_far = dict_set(@, next_pos, new_cost),
                                       !.frontier = @ \cup
                                           { << new_cost + _heuristic(goal, next_pos),
                                                next_pos[1], next_pos[2] >> },
                                       !.came_from = dict_set(@, next_pos, current)]
                               ELSE st } })

\* The loop "for next_pos in self._get_neighbors(current, avoid_bombs)",
\* from neighbour k on.
RECURSIVE find_path_relax(_, _, _, _, _)
find_path_relax(st, current, nbrs, k, goal) ==
    IF k > Len(nbrs) THEN st
    ELSE The({ find_path_relax(st2, current, nbrs, k + 1, goal) :
                 st2 \in { LET next_pos == nbrs[k]
                               new_cost == st.cost_so_far[current] + 1
                           IN  IF next_pos \notin DOMAIN st.cost_so_far
                                  \/ new_cost < st.cost_so_far[next_pos]
                               THEN [st EXCEPT
                                       !.cost_so_far = dict_set(@, next_pos, new_cost),
                                       !.frontier = @ \cup
                                           { << new_cost + _heuristic(goal, next_pos),
                                                next_pos[1], next_pos[2] >> },
                                       !.came_from = dict_set(@, next_pos, current)]
                               ELSE st } })

\* The body of the loop of find_path once the entry e is popped.
find_path_popped(st, e, g, gb, start, goal, avoid_bombs) ==
    LET current == << e[2], e[3] >>
    IN  IF current = goal
        THEN [st EXCEPT
                !.frontier = @ \ {e},
                !.pops = Append(@, [cell |-> current,
                                    cost |-> st.cost_so_far[current],
                                    priority |-> e[1]]),
                !.done = TRUE, !.found = TRUE,
                !.path = _reconstruct_path(st.came_from, start, goal, << goal >>)]
        ELSE The({ find_path_relax(st1, current, nbrs, 1, goal) :
                     st1 \in { [st EXCEPT
                                  !.frontier = @ \ {e},
                                  !.pops = Append(@, [cell |-> current,
                                                      cost |-> st.cost_so_far[current],
                                                      priority |-> e[1]])] },
                     nbrs \in { _get_neighbors(g, gb, current, avoid_bombs, 1) } })

\* One iteration of the loop of find_path, or the final "return None".
find_path_step(st, g, gb, start, goal, avoid_bombs) ==
    IF st.frontier = {} THEN [st EXCEPT !.done = TRUE]
    ELSE The({ find_path_popped(st, e, g, gb, start, goal, avoid_bombs) :
                 e \in { heappop(st.frontier) } })

RECURSIVE find_path_loop(_, _, _, _, _, _)
find_path_loop(st, g, gb, start, goal, avoid_bombs) ==
    IF st.done THEN st
    ELSE The({ find_path_loop(st2, g, gb, start, goal, avoid_bombs) :
                 st2 \in { find_path_step(st, g, gb, start, goal, avoid_bombs) } })

\* AStarPathfinder.find_path: found is FALSE for None.
find_path(g, gb, start, goal, avoid_bombs) ==
    find_path_loop(find_path_init(start), g, gb, start, goal, avoid_bombs)

(***************************************************************************)
(* Threat analysis and the smart enemy AI (src/ai.py, ThreatAnalyzer and   *)
(* SmartEnemyAI).  A direction is a pair <<dx, dy>>; <<0, 0>> also stands  *)
(* for the None of get_escape_direction (both are false in "if             *)
(* escape_dir").  off is the map offset <<offset_x, offset_y>> of the      *)
(* grid, which Spawner.load_level derives from the display size.           *)
(***************************************************************************)

\* Explosion.check_hit_position with the offsets the caller passes; radius10
\* is radius * 10.
check_hit_position_at(e, pixel_x, pixel_y, radius10, off_x, off_y) ==
    \E i \in 1 .. Len(e.tiles) :
        LET cx == e.tiles[i][1] * TILE_SIZE + TILE_SIZE \div 2 + off_x
            cy == e.tiles[i][2] * TILE_SIZE + TILE_SIZE \div 2 + off_y
            rr == radius10 + 10 * (TILE_SIZE \div 2)
        IN  100 * ((pixel_x - cx) * (pixel_x - cx) + (pixel_y - cy) * (pixel_y - cy))
              < rr * rr

\* ExplosionManager.check_any_hit_position with the offsets the caller passes.
check_any_hit_position_at(exps, pixel_x, pixel_y, radius10, off_x, off_y) ==
    \E i \in 1 .. Len(exps) :
        check_hit_position_at(exps[i], pixel_x, pixel_y, radius10, off_x, off_y)

\* ThreatAnalyzer._is_tile_safe: the probe point includes the map offset,
\* the call of check_any_hit_position passes no offsets (they default to 0).
_is_tile_safe(gb, exps, off, grid_x, grid_y) ==
    /\ ~check_any_hit_position_at(exps,
            grid_x * TILE_SIZE + TILE_SIZE \div 2 + off[1],
            grid_y * TILE_SIZE + TILE_SIZE \div 2 + off[2],
            10 * (TILE_SIZE \div 2), 0, 0)
    /\ \A k \in 1 .. Len(NeighborDirs) :
          ~has_bomb(gb, grid_x + NeighborDirs[k][1], grid_y + NeighborDirs[k][2])

\* The tiles in the order of the loops of get_safe_tiles: x outer, y inner.
ScanOrder ==
    [i \in 1 .. GridW * GridH |-> << (i - 1) \div GridH, (i - 1) % GridH >>]

\* ThreatAnalyzer.get_safe_tiles
get_safe_tiles(gb, exps, off) ==
    LET Safe(c) == _is_tile_safe(gb, exps, off, c[1], c[2])
    IN  SelectSeq(ScanOrder, Safe)

\* The loop of find_nearest_safe_tile from tile k of the list on; nearest is
\* NoCell while min_dist is infinite.
RECURSIVE nearest_scan(_, _, _, _, _)
nearest_scan(safe_tiles, start, k, nearest, min_dist) ==
    IF k > Len(safe_tiles) THEN nearest
    ELSE LET tile == safe_tiles[k]
             dist == Abs(tile[1] - start[1]) + Abs(tile[2] - start[2])
         IN  IF nearest = NoCell \/ dist < min_dist
             THEN nearest_scan(safe_tiles, start, k + 1, tile, dist)
             ELSE nearest_scan(safe_tiles, start, k + 1, nearest, min_dist)

\* ThreatAnalyzer.find_nearest_safe_tile: NoCell for None.
find_nearest_safe_tile(gb, exps, off, start) ==
    The({ nearest_scan(safe_tiles, start, 1, NoCell, 0) :
            safe_tiles \in { get_safe_tiles(gb, exps, off) } })

\* ThreatAnalyzer.get_escape_direction
get_escape_direction(gb, exps, off, current_pos) ==
    The({ IF safe_tile = NoCell THEN << 0, 0 >>
          ELSE LET dx == safe_tile[1] - current_pos[1]
                   dy == safe_tile[2] - current_pos[2]
               IN  IF Abs(dx) > Abs(dy)
                   THEN << IF dx > 0 THEN 1 ELSE -1, 0 >>
                   ELSE << 0, IF dy > 0 THEN 1 ELSE -1 >> :
          safe_tile \in { find_nearest_safe_tile(gb, exps, off, current_pos) } })

\* An enemy as the smart AI sees it; chase_range is NoChaseRange for an
\* enemy without that attribute.
NoChaseRange == -1
SmartEnemy(grid_x, grid_y, alive, chase_range) ==
    [grid_x |-> grid_x, grid_y |-> grid_y, alive |-> alive,
     chase_range |-> chase_range]

\* SmartEnemyAI._can_chase
_can_chase(enemy, p) ==
    /\ p.alive
    /\ Abs(enemy.grid_x - p.grid_x) + Abs(enemy.grid_y - p.grid_y)
         <= (IF enemy.chase_range # NoChaseRange THEN enemy.chase_range ELSE 6)

\* SmartEnemyAI._get_random_direction: the first open direction of a fixed
\* list.
SmartDirs == << <<0, -1>>, <<0, 1>>, <<-1, 0>>, <<1, 0>> >>
smart_get_random_direction(enemy, g) ==
    LET open == { k \in 1 .. Len(SmartDirs) :
                    is_empty(g, enemy.grid_x + SmartDirs[k][1],
                                enemy.grid_y + SmartDirs[k][2]) }
    IN  IF open = {} THEN << 0, 0 >>
        ELSE SmartDirs[CHOOSE k \in open : \A j \in open : k <= j]

\* The chase branch and the fallback of get_movement_direction.
smart_chase_or_wander(enemy, g, gb, p) ==
    IF _can_chase(enemy, p)
    THEN The({ IF found.found /\ Len(found.path) > 1
               THEN << found.path[2][1] - enemy.grid_x,
                       found.path[2][2] - enemy.grid_y >>
               ELSE smart_get_random_direction(enemy, g) :
               found \in { find_path(g, gb, << enemy.grid_x, enemy.grid_y >>,
                                     << p.grid_x, p.grid_y >>, TRUE) } })
    ELSE smart_get_random_direction(enemy, g)

\* SmartEnemyAI.get_movement_direction
get_movement_direction(enemy, g, gb, exps, off, p) ==
    IF ~enemy.alive THEN << 0, 0 >>
    ELSE The({ IF escape_dir # << 0, 0 >> THEN escape_dir
               ELSE smart_chase_or_wander(enemy, g, gb, p) :
               escape_dir \in { get_escape_direction(gb, exps, off,
                                    << enemy.grid_x, enemy.grid_y >>) } })

(***************************************************************************)
(* Spawner.spawn_powerups_from_soft_walls (src/spawner.py).  The random    *)
(* draws are a plan: an index-increasing list of <<index, type>> picks     *)
(* into the list of tiles handed to the spawner.                           *)
(***************************************************************************)
RECURSIVE Plans(_, _)
Plans(n, room) ==
    IF room <= 0 \/ n = 0 THEN { << >> }
    ELSE LET prev == Plans(n, room - 1)
             full == {pl \in prev : Len(pl) = room - 1}
         IN  prev \cup
             { Append(x[1], <<x[2], x[3]>>) :
                 x \in { y \in full \X (1 .. n) \X LevelPowerupTypes :
                           Len(y[1]) = 0 \/ y[1][Len(y[1])][1] < y[2] } }

RECURSIVE spawn_powerups_from_soft_walls(_, _, _, _)
spawn_powerups_from_soft_walls(pws, destroyed_walls, plan, k) ==
    IF k > Len(plan) THEN pws
    ELSE spawn_powerups_from_soft_walls(
             Append(pws, Powerup(plan[k][2],
                                 destroyed_walls[plan[k][1]][1],
                                 destroyed_walls[plan[k][1]][2])),
             destroyed_walls, plan, k + 1)

\* "for bomb in exploded_bombs: destroyed_walls.extend(bomb.explosion_tiles)"
RECURSIVE blast_tiles(_, _)
blast_tiles(bs, k) ==
    IF k = 0 THEN << >> ELSE blast_tiles(bs, k - 1) \o bs[k].explosion_tiles

\* Variant: one callback per update, however many bombs exploded.
bomb_callbacks_once(p, bs, k) ==
    IF \E i \in 1 .. Len(bs) : bs[i].owner_id = PLAYER_ID
    THEN on_bomb_exploded(p) ELSE p

\* "for bomb in exploded_bombs: if bomb.owner_id == player.id: ..."
RECURSIVE bomb_callbacks(_, _, _)
bomb_callbacks(p, bs, k) ==
    IF k > Len(bs) THEN p
    ELSE bomb_callbacks(IF bs[k].owner_id = PLAYER_ID THEN on_bomb_exploded(p) ELSE p,
                        bs, k + 1)

\* Variant: a victory test that does not ask whether the player is alive.
check_victory_dead_too(p, exit_data) ==
    p.grid_x = exit_data.col /\ p.grid_y = exit_data.row

\* GameScene._check_victory_condition with no enemy alive.
check_victory(p, exit_data) ==
    p.alive /\ p.grid_x = exit_data.col /\ p.grid_y = exit_data.row

(***************************************************************************)
(* Enemies (src/enemy.py): the basic enemy.  An enemy is a record of its   *)
(* grid and pixel position, its direction <<dx, dy>>, its move timer in ms *)
(* and its speed in px/s.  Where the code draws at random (the shuffle of  *)
(* _get_random_direction) an operator returns the set of the outcomes.     *)
(***************************************************************************)
\* The "speed" entry of the enemies of the level description, in px/s: the
\* player's speed, one tile in a frame of 0.32 s.
EnemySpeed == 150
EnemyDirs == { <<0, -1>>, <<0, 1>>, <<-1, 0>>, <<1, 0>> }

BasicEnemy(grid_x, grid_y) ==
    [grid_x |-> grid_x, grid_y |-> grid_y,
     x |-> grid_to_pixel(grid_x, grid_y)[1], y |-> grid_to_pixel(grid_x, grid_y)[2],
     alive |-> TRUE, direction |-> << 0, 0 >>, move_timer |-> 0,
     speed |-> EnemySpeed]

\* helpers.circle_collision; the radii are in tenths of a pixel.
circle_collision(pos1, radius1, pos2, radius2) ==
    100 * ((pos1[1] - pos2[1]) * (pos1[1] - pos2[1])
           + (pos1[2] - pos2[2]) * (pos1[2] - pos2[2]))
        < (radius1 + radius2) * (radius1 + radius2)

\* The test of a tile in BasicEnemy._get_random_direction.
enemy_tile_clear(g, gb, x, y) ==
    is_valid_grid(x, y) /\ is_empty(g, x, y) /\ ~has_bomb(gb, x, y)

\* BasicEnemy._get_random_direction: the directions the call can return.
basic_get_random_direction(e, g, gb) ==
    IF /\ e.direction # << 0, 0 >>
       /\ enemy_tile_clear(g, gb, e.grid_x + e.direction[1],
                                  e.grid_y + e.direction[2])
    THEN { e.direction }
    ELSE LET clear == { d \in EnemyDirs :
                          enemy_tile_clear(g, gb, e.grid_x + d[1], e.grid_y + d[2]) }
         IN  IF clear # {} THEN clear ELSE { e.direction }

\* BasicEnemy._get_movement_direction and the assignment of its result to
\* the direction: the enemies the call can leave.
basic_get_movement_direction(e, g, gb) ==
    IF e.move_timer + 16 >= 500
    THEN { [e EXCEPT !.move_timer = 0, !.direction = d] :
             d \in basic_get_random_direction(e, g, gb) }
    ELSE { [e EXCEPT !.move_timer = @ + 16] }

\* Enemy._move from the given attempt on: the enemies the call can leave.
RECURSIVE enemy_move(_, _, _, _, _)
enemy_move(e, g, gb, dt, attempt) ==
    IF attempt >= 4 \/ (e.speed * dt) \div 1000 = 0 THEN { e }
    ELSE UNION {
           IF 4 * ((res.x - e.x) * (res.x - e.x) + (res.y - e.y) * (res.y - e.y))
                > ((e.speed * dt) \div 1000) * ((e.speed * dt) \div 1000)
           THEN { [e EXCEPT !.x = res.x, !.y = res.y,
                            !.grid_x = pixel_to_grid(res.x, res.y)[1],
                            !.grid_y = pixel_to_grid(res.x, res.y)[2]] }
           ELSE UNION { enemy_move([e EXCEPT !.direction =
                                       IF new_dir # << 0, 0 >> THEN new_dir ELSE @],
                                   g, gb, dt, attempt + 1) :
                          new_dir \in basic_get_random_direction(e, g, gb) } :
           res \in { resolve_collision(g, gb, << e.x, e.y >>,
                         << e.direction[1] * ((e.speed * dt) \div 1000),
                            e.direction[2] * ((e.speed * dt) \div 1000) >>,
                         EnemyRadius * 10, TRUE) } }

\* Variants: an enemy that explosions do not harm, and an enemy that dies
\* without an explosion.
enemy_check_explosion_collision_never(e, exps) == e
enemy_check_explosion_collision_always(e, exps) == [e EXCEPT !.alive = FALSE]

\* Enemy._check_explosion_collision and Enemy.die
enemy_check_explosion_collision(e, exps) ==
    IF check_any_hit_position(exps, e.x, e.y, EnemyRadius * 8)
    THEN [e EXCEPT !.alive = FALSE] ELSE e

\* Enemy.update: the enemies the call can leave.
enemy_update(e, g, gb, exps, dt) ==
    IF ~e.alive THEN { e }
    ELSE { enemy_check_explosion_collision(e3, exps) :
             e3 \in UNION { IF e2.direction # << 0, 0 >>
                            THEN enemy_move(e2, g, gb, dt, 0) ELSE { e2 } :
                            e2 \in basic_get_movement_direction(
                                       [e EXCEPT !.move_timer = @ + dt], g, gb) } }

\* The loop of GameScene._update_enemies over the first k enemies: the
\* lists of updated enemies it can produce.
RECURSIVE update_enemies(_, _, _, _, _, _)
update_enemies(ens, k, g, gb, exps, dt) ==
    IF k = 0 THEN { << >> }
    ELSE { Append(done, e) :
             done \in update_enemies(ens, k - 1, g, gb, exps, dt),
             e \in enemy_update(ens[k], g, gb, exps, dt) }

\* Enemy.check_player_collision
check_player_collision(e, p) ==
    /\ e.alive /\ p.alive
    /\ circle_collision(<< e.x, e.y >>, EnemyRadius * 8,
                        << p.x, p.y >>, PlayerRadius * 8)

\* GameScene._check_player_enemy_collision: whether the player dies.
player_enemy_collision(p, ens) ==
    /\ p.alive
    /\ \E i \in 1 .. Len(ens) : ens[i].alive /\ check_player_collision(ens[i], p)

\* Variant: a victory test that does not look at the enemies.
check_victory_condition_no_enemies(p, ens, exit_data) ==
    check_victory(p, exit_data)

\* GameScene._check_victory_condition
check_victory_condition(p, ens, exit_data) ==
    /\ \A i \in 1 .. Len(ens) : ~ens[i].alive
    /\ check_victory(p, exit_data)

(***************************************************************************)
(* The chasing enemy (src/enemy.py, ChaseEnemy).  Its record has the       *)
(* fields of the basic enemy and chase_range, last_player_pos (NoCell for  *)
(* None), path_timer (ms) and decided, the direction the last call of      *)
(* _get_movement_direction returned.                                       *)
(***************************************************************************)
\* The default of the chase_range parameter of Spawner.spawn_enemy.
ChaseRangeDefault == 5

ChaseEnemy(grid_x, grid_y, speed, chase_range) ==
    [grid_x |-> grid_x, grid_y |-> grid_y,
     x |-> grid_to_pixel(grid_x, grid_y)[1], y |-> grid_to_pixel(grid_x, grid_y)[2],
     alive |-> TRUE, direction |-> << 0, 0 >>, move_timer |-> 0,
     speed |-> speed, chase_range |-> chase_range,
     last_player_pos |-> NoCell, path_timer |-> 0, decided |-> << 0, 0 >>]

\* Spawner.spawn_enemies_from_level for one "chase" entry of the level
\* description: spawn_enemy is called with the type, the cell and the speed.
spawn_chase_enemy(enemy_data) ==
    ChaseEnemy(enemy_data.col, enemy_data.row, enemy_data.speed,
               ChaseRangeDefault)

\* ChaseEnemy._is_player_in_range
_is_player_in_range(e, p) ==
    Abs(e.grid_x - p.grid_x) + Abs(e.grid_y - p.grid_y) <= e.chase_range

\* ChaseEnemy._get_random_direction: the directions the call can return.
chase_get_random_direction(e, g, gb) ==
    LET clear == { d \in EnemyDirs :
                     enemy_tile_clear(g, gb, e.grid_x + d[1], e.grid_y + d[2]) }
    IN  IF clear # {} THEN clear
        ELSE IF e.direction # << 0, 0 >> THEN { e.direction }
        ELSE EnemyDirs

\* is_direction_clear of ChaseEnemy._calculate_path_direction: the probe
\* radius + 10 pixels ahead.
is_direction_clear(e, g, gb, dir) ==
    LET check_dist == EnemyRadius + 10
        gp == pixel_to_grid(e.x + dir[1] * check_dist, e.y + dir[2] * check_dist)
    IN  is_valid_grid(gp[1], gp[2]) /\ is_empty(g, gp[1], gp[2])
          /\ ~has_bomb(gb, gp[1], gp[2])

\* The first direction of a list that is clear, << 0, 0 >> if none is.
RECURSIVE first_clear(_, _, _, _, _)
first_clear(e, g, gb, dirs, k) ==
    IF k > Len(dirs) THEN << 0, 0 >>
    ELSE IF is_direction_clear(e, g, gb, dirs[k]) THEN dirs[k]
    ELSE first_clear(e, g, gb, dirs, k + 1)

ChaseAllDirs == << <<0, -1>>, <<0, 1>>, <<-1, 0>>, <<1, 0>> >>

\* Variant: the horizontal axis first, whatever the distances.
_calculate_path_direction_x_first(e, g, gb, p) ==
    LET dx == p.grid_x - e.grid_x
        dy == p.grid_y - e.grid_y
        horizontal == IF dx # 0 THEN << << Sgn(dx), 0 >> >> ELSE << >>
        vertical == IF dy # 0 THEN << << 0, Sgn(dy) >> >> ELSE << >>
    IN  first_clear(e, g, gb, horizontal \o vertical \o ChaseAllDirs, 1)

\* ChaseEnemy._calculate_path_direction
_calculate_path_direction(e, g, gb, p) ==
    LET dx == p.grid_x - e.grid_x
        dy == p.grid_y - e.grid_y
        horizontal == IF dx # 0 THEN << << Sgn(dx), 0 >> >> ELSE << >>
        vertical == IF dy # 0 THEN << << 0, Sgn(dy) >> >> ELSE << >>
        directions == IF Abs(dx) > Abs(dy) THEN horizontal \o vertical
                      ELSE vertical \o horizontal
    IN  first_clear(e, g, gb, directions \o ChaseAllDirs, 1)

\* ChaseEnemy._get_movement_direction and the assignment of its result to
\* the direction: the enemies the call can leave.
chase_get_movement_direction(e, g, gb, p) ==
    IF ~_is_player_in_range(e, p)
    THEN { [e EXCEPT !.direction = d, !.decided = d] :
             d \in chase_get_random_direction(e, g, gb) }
    ELSE IF e.path_timer + e.move_timer >= 300 \/ e.last_player_pos = NoCell
    THEN { [e EXCEPT !.path_timer = 0,
                     !.last_player_pos = << p.grid_x, p.grid_y >>,
                     !.direction = _calculate_path_direction(e, g, gb, p),
                     !.decided = _calculate_path_direction(e, g, gb, p)] }
    ELSE { [e EXCEPT !.path_timer = @ + e.move_timer, !.decided = e.direction] }

\* Enemy._move of a chasing enemy, from the given attempt on.
RECURSIVE chase_move(_, _, _, _, _)
chase_move(e, g, gb, dt, attempt) ==
    IF attempt >= 4 \/ (e.speed * dt) \div 1000 = 0 THEN { e }
    ELSE UNION {
           IF 4 * ((res.x - e.x) * (res.x - e.x) + (res.y - e.y) * (res.y - e.y))
                > ((e.speed * dt) \div 1000) * ((e.speed * dt) \div 1000)
           THEN { [e EXCEPT !.x = res.x, !.y = res.y,
                            !.grid_x = pixel_to_grid(res.x, res.y)[1],
                            !.grid_y = pixel_to_grid(res.x, res.y)[2]] }
           ELSE UNION { chase_move([e EXCEPT !.direction = new_dir],
                                   g, gb, dt, attempt + 1) :
                          new_dir \in chase_get_random_direction(e, g, gb) } :
           res \in { resolve_collision(g, gb, << e.x, e.y >>,
                         << e.direction[1] * ((e.speed * dt) \div 1000),
                            e.direction[2] * ((e.speed * dt) \div 1000) >>,
                         EnemyRadius * 10, TRUE) } }

\* Enemy.update of a chasing enemy: the enemies the call can leave.
chase_update(e, g, gb, exps, p, dt) ==
    IF ~e.alive THEN { e }
    ELSE { enemy_check_explosion_collision(e3, exps) :
             e3 \in UNION { IF e2.direction # << 0, 0 >>
                            THEN chase_move(e2, g, gb, dt, 0) ELSE { e2 } :
                            e2 \in chase_get_movement_direction(
                                       [e EXCEPT !.move_timer = @ + dt], g, gb, p) } }

(***************************************************************************)
(* Inputs of a frame: dt (ms), the input direction and the bomb key.  The  *)
(* player is only steered in frames of 320 ms, in which it covers exactly  *)
(* one tile at the default speed.                                          *)
(***************************************************************************)
Directions == { <<0, 0>>, <<0, -1>>, <<0, 1>>, <<-1, 0>>, <<1, 0>> }
Inputs ==
    { i \in {0, 320, 2000} \X Directions \X BOOLEAN :
        i[2] # <<0, 0>> => i[1] = 320 }

(***************************************************************************)
(* GameScene.update (src/game_scene.py), one frame.                        *)
(***************************************************************************)
Tick(dt, dir, pressed) ==
    /\ ~game_over /\ ~victory
    /\ \E pu \in { IF player.alive
                    THEN player_update(player, tiles, grid_bombs, explosions,
                                       powerups, effects, dt, dir)
                    ELSE [player |-> player, powerups |-> powerups,
                          effects |-> effects] } :
       LET p1 == pu.player
           place == player.alive /\ pressed
                    /\ player_can_place_bomb(p1, tiles, grid_bombs)
           bombs1 == IF place
                     THEN Append(bombs, Bomb(p1.grid_x, p1.grid_y,
                                             p1.bomb_power, PLAYER_ID))
                     ELSE bombs
           gb1 == IF place THEN add_bomb(grid_bombs, p1.grid_x, p1.grid_y)
                  ELSE grid_bombs
           p2 == IF place THEN [p1 EXCEPT !.placed_bombs = @ + 1] ELSE p1
           exps1 == explosions_update(explosions, dt)
       IN  \E bm \in { bomb_manager_update(bombs1, dt, tiles, soft_walls, gb1, exps1,
                                     <<exit_pos.col, exit_pos.row>>) },
              ens1 \in update_enemies(enemies, Len(enemies), tiles, gb1,
                                      explosions, dt) :
           LET destroyed_walls == blast_tiles(bm.exploded, Len(bm.exploded))
               p3 == bomb_callbacks(p2, bm.exploded, 1)
               room == MaxPowerups - (Len(pu.powerups) + Len(pu.effects))
               IsAlive(e) == e.alive
               IsDead(e) == ~e.alive
               alive_enemies == SelectSeq(ens1, IsAlive)
               contact == player_enemy_collision(p3, alive_enemies)
               p4 == IF contact THEN [p3 EXCEPT !.alive = FALSE] ELSE p3
           IN  \E plan \in (IF level_data.powerup_drop_rate = 0 THEN { << >> }
                             ELSE Plans(Len(destroyed_walls), room)) :
             /\ spawned_powerups' =
                    spawn_powerups_from_soft_walls(<< >>, destroyed_walls, plan, 1)
             /\ tiles' = bm.g
             /\ soft_walls' = bm.sw
             /\ grid_bombs' = bm.gb
             /\ bombs' = bm.keep
             /\ explosions' = bm.exps
             /\ powerups' = powerup_manager_update(
                               spawn_powerups_from_soft_walls(
                                   pu.powerups, destroyed_walls, plan, 1))
             /\ effects' = effects_update(pu.effects, dt)
             /\ player' = p4
             /\ enemies' = alive_enemies
             /\ dead_enemies' = SelectSeq(ens1, IsDead)
             /\ game_over' = (game_over \/ (player.alive /\ ~p1.alive) \/ contact)
             /\ victory' = (victory \/ check_victory_condition(p4, alive_enemies,
                                                               exit_pos))
             /\ exploded_bombs' = bm.exploded
             /\ new_explosions' = bm.created
             /\ last' = "update"
    /\ UNCHANGED << exit_pos, q, r, level_data >>

\* BombManager.trigger_all
TriggerAll ==
    /\ bombs' = [i \in 1 .. Len(bombs) |-> bomb_trigger(bombs[i])]
    /\ last' = "trigger"
    /\ UNCHANGED << tiles, soft_walls, grid_bombs, explosions, powerups, effects,
                    player, game_over, victory, exit_pos, exploded_bombs,
                    new_explosions, spawned_powerups, q, r,
                    enemies, dead_enemies, level_data >>

\* Bomb.trigger on one bomb of the manager
Trigger(i) ==
    /\ bombs' = [bombs EXCEPT ![i] = bomb_trigger(@)]
    /\ last' = "trigger"
    /\ UNCHANGED << tiles, soft_walls, grid_bombs, explosions, powerups, effects,
                    player, game_over, victory, exit_pos, exploded_bombs,
                    new_explosions, spawned_powerups, q, r,
                    enemies, dead_enemies, level_data >>

\* GameScene._load_level
Init ==
    /\ exit_pos \in LevelExits
    /\ tiles = load_level(exit_pos)
    /\ soft_walls = {c \in Cells : load_level(exit_pos)[c] = SOFT_WALL}
    /\ grid_bombs = {}
    /\ bombs = << >>
    /\ explosions = << >>
    /\ powerups = << >>
    /\ effects = << >>
    /\ player = Player(LevelPlayerStart[1], LevelPlayerStart[2])
    /\ game_over = FALSE
    /\ victory = FALSE
    /\ exploded_bombs = << >>
    /\ new_explosions = << >>
    /\ spawned_powerups = << >>
    /\ last = "load"
    /\ enemies = << >>
    /\ dead_enemies = << >>
    /\ level_data = DefaultLevel
    /\ q = [kind |-> "none"]
    /\ r = [done |-> FALSE]

Next ==
    \/ \E i \in Inputs : Tick(i[1], i[2], i[3])
    \/ TriggerAll
    \/ \E i \in 1 .. Len(bombs) : Trigger(i)

Spec == Init /\ [][Next]_vars

(***************************************************************************)
(* The same game scene driven by short frames: the player is steered in    *)
(* frames of 160 ms, in which it covers half a tile.                       *)
(***************************************************************************)
FineInputs ==
    { i \in {0, 160, 2000} \X Directions \X BOOLEAN :
        i[2] # <<0, 0>> => i[1] = 160 }

NextFine == \E i \in FineInputs : Tick(i[1], i[2], i[3])

SpecFine == Init /\ [][NextFine]_vars

(***************************************************************************)
(* The game scene on a level with an enemy: a corridor of five open cells  *)
(* inside hard walls, the exit visible at (2,2), the player start at       *)
(* (1,2), a basic enemy of 150 px/s at (5,2), with or without a second one *)
(* at (4,2), and a power-up drop rate of 0.  Frames last 0.32 s (the       *)
(* player and an enemy cover one tile) or 2.0 s (a fuse).                  *)
(*                                                                         *)
(*        x: 0 1 2 3 4 5 6                                                 *)
(*    y=1    # # # # # # #                                                 *)
(*    y=2    # @ E _ _ e #                                                 *)
(*    y=3    # # # # # # #                                                 *)
(***************************************************************************)
EnemyLevelOpen == { <<1, 2>>, <<2, 2>>, <<3, 2>>, <<4, 2>>, <<5, 2>> }
EnemyLevelExit == [col |-> 2, row |-> 2, hidden |-> FALSE]
\* The enemy lists of the level: one enemy, or two.
EnemyLevelStarts == { << <<5, 2>> >>, << <<4, 2>>, <<5, 2>> >> }
EnemyLevel == [powerup_drop_rate |-> 0]

\* Spawner.load_level on the level with the enemy.
load_enemy_level ==
    set_tile([c \in Cells |-> IF c \in EnemyLevelOpen THEN EMPTY ELSE HARD_WALL],
             EnemyLevelExit.col, EnemyLevelExit.row, EXIT)

\* GameScene._load_level on the level with the enemies starting at starts.
LoadEnemyLevel(starts) ==
    /\ exit_pos = EnemyLevelExit
    /\ tiles = load_enemy_level
    /\ soft_walls = {}
    /\ grid_bombs = {}
    /\ bombs = << >>
    /\ explosions = << >>
    /\ powerups = << >>
    /\ effects = << >>
    /\ player = Player(LevelPlayerStart[1], LevelPlayerStart[2])
    /\ game_over = FALSE
    /\ victory = FALSE
    /\ exploded_bombs = << >>
    /\ new_explosions = << >>
    /\ spawned_powerups = << >>
    /\ last = "load"
    /\ enemies = [i \in 1 .. Len(starts) |-> BasicEnemy(starts[i][1], starts[i][2])]
    /\ dead_enemies = << >>
    /\ level_data = EnemyLevel
    /\ q = [kind |-> "none"]
    /\ r = [done |-> FALSE]

InitEnemies == \E starts \in EnemyLevelStarts : LoadEnemyLevel(starts)

EnemyInputs ==
    { i \in {320, 2000} \X Directions \X BOOLEAN :
        i[2] # <<0, 0>> => i[1] = 320 }

NextEnemies == \E i \in EnemyInputs : Tick(i[1], i[2], i[3])

SpecEnemies == InitEnemies /\ [][NextEnemies]_vars

(***************************************************************************)
(* The same level with its single enemy, driven also by frames of 0.16 s,  *)
(* half the life of an explosion, in which the player is not steered and   *)
(* an enemy covers half a tile.                                            *)
(***************************************************************************)
InitEnemiesFine == LoadEnemyLevel(<< <<5, 2>> >>)

EnemyFineInputs ==
    { i \in {160, 320, 2000} \X Directions \X BOOLEAN :
        i[2] # <<0, 0>> => i[1] = 320 }

NextEnemiesFine == \E i \in EnemyFineInputs : Tick(i[1], i[2], i[3])

SpecEnemiesFine == InitEnemiesFine /\ [][NextEnemiesFine]_vars

(***************************************************************************)
(* The same level with its single enemy when the loop may be paused: a     *)
(* paused frame reaches GameScene.update with a delta-time of zero.        *)
(***************************************************************************)
PauseInputs ==
    { i \in {0, 320, 2000} \X Directions \X BOOLEAN :
        i[2] # <<0, 0>> => i[1] = 320 }

NextPause == \E i \in PauseInputs : Tick(i[1], i[2], i[3])

SpecPause == InitEnemiesFine /\ [][NextPause]_vars

(***************************************************************************)
(* The queries of Grid and CollisionSystem on their own: SpecGrid draws a  *)
(* grid and a query, and applies the queried function once.                *)
(*   explosion : Grid.get_explosion_tiles(x, y, power) on a grid that is   *)
(*               EMPTY but for one optional obstacle per arm of (x, y);    *)
(*   coord     : Grid.is_wall / Grid.is_empty at the cell (x, y), inside   *)
(*               or outside the grid;                                      *)
(*   circle    : CollisionSystem.check_circle_to_grid for the player's     *)
(*               circle centred at the pixel (x, y);                       *)
(*   bonus     : PowerupManager.get_total_bonus on a list of active        *)
(*               effects, and the stats Player.update derives from it;     *)
(*   move      : one move of dt milliseconds in direction dir from the     *)
(*               centre (x, y) of an open tile, on a grid with up to two   *)
(*               bombs: CollisionSystem.resolve_collision for an enemy's   *)
(*               circle and Player._update_movement for the player;        *)
(*   probe     : CollisionSystem.check_circle_to_grid for an enemy's      *)
(*               circle at the centre of an open tile or ProbeShift pixels *)
(*               off it, with up to two bombs around, and the cardinal     *)
(*               displacements of ProbeStep pixels that resolve_collision  *)
(*               lets the enemy make from there;                           *)
(*   destroy   : three calls of Grid.destroy_soft_wall(x, y, exit) in a    *)
(*               row on the loaded level, each a step of its own; r keeps  *)
(*               the returned flags and the grid state after each call;    *)
(*   load      : Spawner.load_level on the level description with the exit *)
(*               descriptor q.exit, whose cell may lie outside the grid;   *)
(*   expire    : frames without input on a list of active effects, timed   *)
(*               or not: Player.update, which derives the stats from the   *)
(*               list, then PowerupManager.update, each frame a step.      *)
(***************************************************************************)
ArmDirs == << <<0, 1>>, <<0, -1>>, <<1, 0>>, <<-1, 0>> >>

\* The cell i steps from (cx, cy) on arm k.
ArmCell(cx, cy, k, i) == << cx + ArmDirs[k][1] * i, cy + ArmDirs[k][2] * i >>

\* An arm carries nothing, a wall at a distance up to MaxPower, or the exit
\* next to the centre.
ArmChoices ==
    { <<EMPTY, 0>>, <<EXIT, 1>> } \cup ({HARD_WALL, SOFT_WALL} \X (1 .. MaxPower))

ArmGrid(cx, cy, ch) ==
    [c \in Cells |->
        IF \E k \in 1 .. 4 : ch[k][2] > 0 /\ c = ArmCell(cx, cy, k, ch[k][2])
        THEN ch[CHOOSE k \in 1 .. 4 :
                    ch[k][2] > 0 /\ c = ArmCell(cx, cy, k, ch[k][2])][1]
        ELSE EMPTY]

\* Grids for the coord and circle queries: all EMPTY, EMPTY inside a ring of
\* hard walls, and the loaded level.
OpenGrid == [c \in Cells |-> EMPTY]
RingGrid ==
    [c \in Cells |-> IF c[1] \in {0, GridW - 1} \/ c[2] \in {0, GridH - 1}
                     THEN HARD_WALL ELSE EMPTY]
ProbeGrids == { OpenGrid, RingGrid } \cup { load_level(e) : e \in LevelExits }

\* Pixel abscissas / ordinates left of, inside and right of the grid.
ProbeXs == { offset_x - TILE_SIZE \div 2, offset_x + TILE_SIZE \div 2,
             offset_x + GridW * TILE_SIZE + TILE_SIZE \div 2 }
ProbeYs == { offset_y - TILE_SIZE \div 2, offset_y + TILE_SIZE \div 2,
             offset_y + GridH * TILE_SIZE + TILE_SIZE \div 2 }

\* The lists of at most n elements of S.
SeqsUpTo(S, n) == UNION { [1 .. k -> S] : k \in 0 .. n }

EffectLists ==
    SeqsUpTo({ PowerupEffect(t) :
                 t \in {FIRE_INCREASE, BOMB_INCREASE, SPEED_INCREASE} }, MaxEffects)

\* Grids for the move queries: EMPTY inside a ring of hard walls, without and
\* with the hard pillars of the classic map.
PillarGrid ==
    [c \in Cells |-> IF c[1] \in {0, GridW - 1} \/ c[2] \in {0, GridH - 1}
                        \/ (c[1] % 2 = 0 /\ c[2] % 2 = 0)
                     THEN HARD_WALL ELSE EMPTY]
MoveGrids == { RingGrid, PillarGrid }

\* The sets of at most two bombs on open tiles of g within two steps of c.
BombSets(g, c) ==
    { {a, b} : a, b \in { d \in Cells :
                            /\ g[d] = EMPTY
                            /\ Abs(d[1] - c[1]) + Abs(d[2] - c[2]) <= 2 } }
    \cup { {} }

MoveDirs == ({-1, 0, 1} \X {-1, 0, 1}) \ { <<0, 0>> }
MoveDts == { 160, 320 }

\* "input_direction.normalize() * actual_speed" for a mover of the default
\* speed.
MoveVector(dt, dir) ==
    LET step == (PLAYER_SPEED_DEFAULT * 1000 * dt) \div 1000000
    IN  << move_component(dir[1], dir[2], step), move_component(dir[2], dir[1], step) >>

\* Lists of effects of which at least one carries a timer.
TimedDurations == { 500, 1000 }
TimedEffectLists ==
    { l \in SeqsUpTo({ PowerupEffect(FIRE_INCREASE), PowerupEffect(SPEED_INCREASE) }
                     \cup { PowerupEffectTimed(t, d) :
                              t \in {FIRE_INCREASE, BOMB_INCREASE, SPEED_INCREASE},
                              d \in TimedDurations }, MaxEffects) :
        \E i \in 1 .. Len(l) : has_timer(l[i]) }
ExpireDts == { 0, 320, 2000 }

\* Shifts of a probed circle off the centre of its tile (at 15 pixels an
\* enemy's circle reaches over the tile's edge), and the length of a short
\* displacement.
ProbeShift == 15
ProbeShifts == { -ProbeShift, 0, ProbeShift }
ProbeStep == 8

\* The exit_pos argument of a destroy query: None (no cell), or a cell.
DestroyExits == { NoCell, <<4, 2>>, <<2, 2>> }
DestroyCalls == 3

InitGrid ==
    /\ \/ /\ q \in [kind : {"explosion"}, x : 0 .. GridW - 1, y : 0 .. GridH - 1,
                    power : 0 .. MaxPower]
          /\ \E ch \in [1 .. 4 -> ArmChoices] : tiles = ArmGrid(q.x, q.y, ch)
          /\ grid_bombs = { c \in { ArmCell(q.x, q.y, 1, 1) } :
                              c \in Cells /\ tiles[c] = EMPTY }
       \/ /\ q \in [kind : {"coord"}, x : -1 .. GridW, y : -1 .. GridH,
                    power : {0}]
          /\ tiles \in ProbeGrids
          /\ grid_bombs = {}
       \/ /\ q \in [kind : {"circle"}, x : ProbeXs, y : ProbeYs, power : {0}]
          /\ tiles \in ProbeGrids
          /\ grid_bombs = {}
       \/ /\ q = [kind |-> "bonus", x |-> 0, y |-> 0, power |-> 0]
          /\ tiles = load_level([col |-> 4, row |-> 2, hidden |-> TRUE])
          /\ grid_bombs = {}
       \/ /\ tiles \in MoveGrids
          /\ \E c \in { d \in Cells : tiles[d] = EMPTY } :
                /\ q \in [kind : {"move"}, x : { grid_to_pixel(c[1], c[2])[1] },
                          y : { grid_to_pixel(c[1], c[2])[2] }, power : {0},
                          dt : MoveDts, dir : MoveDirs]
                /\ grid_bombs \in BombSets(tiles, c)
       \/ /\ tiles \in MoveGrids
          /\ \E c \in { d \in Cells : tiles[d] = EMPTY } :
                /\ q \in [kind : {"probe"},
                          x : { grid_to_pixel(c[1], c[2])[1] + sx : sx \in ProbeShifts },
                          y : { grid_to_pixel(c[1], c[2])[2] + sy : sy \in ProbeShifts },
                          power : {0}]
                /\ grid_bombs \in BombSets(tiles, c)
       \/ /\ q \in [kind : {"destroy"}, x : 0 .. GridW - 1, y : 0 .. GridH - 1,
                    power : {0}, exit : DestroyExits]
          /\ tiles \in { load_level(e) : e \in LevelExits }
          /\ grid_bombs \in { {}, { <<2, 2>> } }
       \/ /\ q \in [kind : {"load"}, x : {0}, y : {0}, power : {0},
                    exit : [col : -1 .. GridW, row : -1 .. GridH,
                            hidden : BOOLEAN]]
          /\ tiles = OpenGrid
          /\ grid_bombs = {}
       \/ /\ q = [kind |-> "expire", x |-> 0, y |-> 0, power |-> 0]
          /\ tiles = load_level([col |-> 4, row |-> 2, hidden |-> TRUE])
          /\ grid_bombs = {}
    /\ r = IF q.kind = "destroy"
           THEN [done |-> FALSE, rets |-> << >>, snaps |-> << >>,
                 init |-> [tiles |-> tiles,
                           soft_walls |-> {c \in Cells : tiles[c] = SOFT_WALL},
                           grid_bombs |-> grid_bombs]]
           ELSE [done |-> FALSE]
    /\ soft_walls = {c \in Cells : tiles[c] = SOFT_WALL}
    /\ bombs = << >>
    /\ explosions = << >>
    /\ powerups = << >>
    /\ effects \in (IF q.kind = "bonus" THEN EffectLists
                    ELSE IF q.kind = "expire" THEN TimedEffectLists
                    ELSE { << >> })
    /\ player = IF q.kind = "move"
                THEN Player(pixel_to_grid(q.x, q.y)[1], pixel_to_grid(q.x, q.y)[2])
                ELSE Player(LevelPlayerStart[1], LevelPlayerStart[2])
    /\ game_over = FALSE
    /\ victory = FALSE
    /\ exit_pos = [col |-> 4, row |-> 2, hidden |-> TRUE]
    /\ exploded_bombs = << >>
    /\ new_explosions = << >>
    /\ spawned_powerups = << >>
    /\ last = "load"
    /\ enemies = << >>
    /\ dead_enemies = << >>
    /\ level_data = DefaultLevel

\* Grid.get_explosion_tiles
QueryExplosion ==
    /\ q.kind = "explosion" /\ ~r.done
    /\ r' = [done |-> TRUE,
             tiles |-> get_explosion_tiles(tiles, q.x, q.y, q.power)]
    /\ UNCHANGED << tiles, soft_walls, grid_bombs, bombs, explosions, powerups,
                    effects, player, game_over, victory, exit_pos,
                    exploded_bombs, new_explosions, spawned_powerups, last, q,
                    enemies, dead_enemies, level_data >>

\* Grid.is_wall and Grid.is_empty
QueryCoord ==
    /\ q.kind = "coord" /\ ~r.done
    /\ r' = [done |-> TRUE,
             is_wall |-> is_wall(tiles, q.x, q.y),
             is_empty |-> is_empty(tiles, q.x, q.y)]
    /\ UNCHANGED << tiles, soft_walls, grid_bombs, bombs, explosions, powerups,
                    effects, player, game_over, victory, exit_pos,
                    exploded_bombs, new_explosions, spawned_powerups, last, q,
                    enemies, dead_enemies, level_data >>

\* CollisionSystem.check_circle_to_grid with the radius Player uses to move
QueryCircle ==
    /\ q.kind = "circle" /\ ~r.done
    /\ r' = [done |-> TRUE,
             type |-> check_circle_to_grid(tiles, grid_bombs, q.x, q.y,
                                           PlayerRadius * 8, TRUE)]
    /\ UNCHANGED << tiles, soft_walls, grid_bombs, bombs, explosions, powerups,
                    effects, player, game_over, victory, exit_pos,
                    exploded_bombs, new_explosions, spawned_powerups, last, q,
                    enemies, dead_enemies, level_data >>

\* PowerupManager.get_total_bonus, and Player.update in a frame without input
QueryBonus ==
    /\ q.kind = "bonus" /\ ~r.done
    /\ r' = [done |-> TRUE,
             bonus |-> get_total_bonus(effects, Len(effects)),
             player |-> player_update(player, tiles, grid_bombs, explosions,
                                      powerups, effects, 0, <<0, 0>>).player]
    /\ UNCHANGED << tiles, soft_walls, grid_bombs, bombs, explosions, powerups,
                    effects, player, game_over, victory, exit_pos,
                    exploded_bombs, new_explosions, spawned_powerups, last, q,
                    enemies, dead_enemies, level_data >>

\* CollisionSystem.resolve_collision as Enemy._move calls it, and
\* Player._update_movement
QueryMove ==
    /\ q.kind = "move" /\ ~r.done
    /\ r' = [done |-> TRUE,
             resolve |-> resolve_collision(tiles, grid_bombs, <<q.x, q.y>>,
                                           MoveVector(q.dt, q.dir),
                                           EnemyRadius * 10, TRUE),
             resolve_player |-> resolve_collision(tiles, grid_bombs, <<q.x, q.y>>,
                                                  MoveVector(q.dt, q.dir),
                                                  PlayerRadius * 8, TRUE),
             player |-> update_movement(player, tiles, grid_bombs, q.dt, q.dir)]
    /\ UNCHANGED << tiles, soft_walls, grid_bombs, bombs, explosions, powerups,
                    effects, player, game_over, victory, exit_pos,
                    exploded_bombs, new_explosions, spawned_powerups, last, q,
                    enemies, dead_enemies, level_data >>

\* CollisionSystem.check_circle_to_grid with an enemy's radius, and the
\* short cardinal moves CollisionSystem.resolve_collision allows from there
QueryProbe ==
    /\ q.kind = "probe" /\ ~r.done
    /\ r' = [done |-> TRUE,
             type |-> check_circle_to_grid(tiles, grid_bombs, q.x, q.y,
                                           EnemyRadius * 10, TRUE),
             walls |-> check_circle_to_grid(tiles, grid_bombs, q.x, q.y,
                                            EnemyRadius * 10, FALSE),
             moves |-> { d \in EnemyDirs :
                           LET res == resolve_collision(tiles, grid_bombs, <<q.x, q.y>>,
                                          << d[1] * ProbeStep, d[2] * ProbeStep >>,
                                          EnemyRadius * 10, TRUE)
                           IN  << res.x, res.y >> # << q.x, q.y >> }]
    /\ UNCHANGED << tiles, soft_walls, grid_bombs, bombs, explosions, powerups,
                    effects, player, game_over, victory, exit_pos,
                    exploded_bombs, new_explosions, spawned_powerups, last, q,
                    enemies, dead_enemies, level_data >>

\* Grid.destroy_soft_wall, called once more on the same tile
QueryDestroy ==
    /\ q.kind = "destroy" /\ ~r.done
    /\ tiles' = destroy_soft_wall(tiles, q.x, q.y, q.exit)
    /\ soft_walls' = destroy_soft_wall_set(tiles, soft_walls, q.x, q.y)
    /\ r' = [r EXCEPT
               !.rets = Append(@, destroy_ok(tiles, q.x, q.y)),
               !.snaps = Append(@, [tiles |-> tiles', soft_walls |-> soft_walls',
                                    grid_bombs |-> grid_bombs]),
               !.done = (Len(r.rets) + 1 = DestroyCalls)]
    /\ UNCHANGED << grid_bombs, bombs, explosions, powerups,
                    effects, player, game_over, victory, exit_pos,
                    exploded_bombs, new_explosions, spawned_powerups, last, q,
                    enemies, dead_enemies, level_data >>

\* Spawner.load_level followed by the rest of GameScene._load_level
QueryLoad ==
    /\ q.kind = "load" /\ ~r.done
    /\ tiles' = IF load_level_raises(q.exit) THEN tiles ELSE load_level(q.exit)
    /\ soft_walls' = IF load_level_raises(q.exit) THEN soft_walls
                     ELSE load_level_soft_walls(q.exit)
    /\ exit_pos' = IF load_level_raises(q.exit) THEN exit_pos ELSE q.exit
    /\ r' = [done |-> TRUE, raised |-> load_level_raises(q.exit)]
    /\ UNCHANGED << grid_bombs, bombs, explosions, powerups,
                    effects, player, game_over, victory,
                    exploded_bombs, new_explosions, spawned_powerups, last, q,
                    enemies, dead_enemies, level_data >>

\* One frame on the effect list: Player.update without input, then
\* PowerupManager.update(dt)
QueryExpire(dt) ==
    /\ q.kind = "expire" /\ effects # << >>
    /\ player' = player_update(player, tiles, grid_bombs, explosions,
                               powerups, effects, dt, <<0, 0>>).player
    /\ effects' = effects_update(effects, dt)
    /\ r' = [done |-> TRUE, dt |-> dt]
    /\ UNCHANGED << tiles, soft_walls, grid_bombs, bombs, explosions, powerups,
                    game_over, victory, exit_pos,
                    exploded_bombs, new_explosions, spawned_powerups, last, q,
                    enemies, dead_enemies, level_data >>

NextGrid ==
    \/ QueryExplosion \/ QueryCoord \/ QueryCircle \/ QueryBonus \/ QueryMove
    \/ QueryDestroy \/ QueryLoad \/ QueryProbe
    \/ \E dt \in ExpireDts : QueryExpire(dt)

SpecGrid == InitGrid /\ [][NextGrid]_vars

(***************************************************************************)
(* Path search: AStarPathfinder.find_path step by step, one action per     *)
(* iteration of its loop, on a grid, a start tile, a goal tile and a set   *)
(* of bombs; r holds the state of the search.  The grids are the open      *)
(* grid, the ring without and with one more wall, the pillars, a ring with *)
(* a sealed corner, a single straight corridor, and the loaded level.      *)
(***************************************************************************)
Inner == { c \in Cells : c[1] \in 1 .. GridW - 2 /\ c[2] \in 1 .. GridH - 2 }

WithWalls(g, ws) == [c \in Cells |-> IF c \in ws THEN HARD_WALL ELSE g[c]]

CornerGrid == WithWalls(RingGrid, { <<2, 1>>, <<1, 2>> })

CorridorRow == 2
CorridorGrid ==
    [c \in Cells |-> IF c[2] = CorridorRow /\ c[1] \in 1 .. GridW - 2
                     THEN EMPTY ELSE HARD_WALL]

PathGrids ==
    { OpenGrid, RingGrid, PillarGrid, CornerGrid, CorridorGrid }
    \cup { WithWalls(RingGrid, {w}) : w \in Inner }
    \cup { load_level(e) : e \in LevelExits }

PathGoals == Inner \cup { <<0, 0>> }
PathBomb == <<3, 2>>

InitPath ==
    /\ tiles \in PathGrids
    /\ \E b \in { {}, {PathBomb} } :
          grid_bombs = { c \in b : is_empty(tiles, c[1], c[2]) }
    /\ \E start \in { c \in Cells : is_empty(tiles, c[1], c[2]) } :
          /\ q \in [kind : {"path"}, start : {start}, goal : PathGoals,
                    avoid_bombs : IF grid_bombs = {} THEN {TRUE} ELSE BOOLEAN]
          /\ r = find_path_init(start)
    /\ soft_walls = {c \in Cells : tiles[c] = SOFT_WALL}
    /\ bombs = << >>
    /\ explosions = << >>
    /\ powerups = << >>
    /\ effects = << >>
    /\ player = Player(LevelPlayerStart[1], LevelPlayerStart[2])
    /\ game_over = FALSE
    /\ victory = FALSE
    /\ exit_pos = [col |-> 4, row |-> 2, hidden |-> TRUE]
    /\ exploded_bombs = << >>
    /\ new_explosions = << >>
    /\ spawned_powerups = << >>
    /\ last = "load"
    /\ enemies = << >>
    /\ dead_enemies = << >>
    /\ level_data = DefaultLevel

\* One iteration of the loop of find_path.
PathStep ==
    /\ q.kind = "path" /\ ~r.done
    /\ r' = find_path_step(r, tiles, grid_bombs, q.start, q.goal, q.avoid_bombs)
    /\ UNCHANGED << tiles, soft_walls, grid_bombs, bombs, explosions, powerups,
                    effects, player, game_over, victory, exit_pos,
                    exploded_bombs, new_explosions, spawned_powerups, last, q,
                    enemies, dead_enemies, level_data >>

NextPath == PathStep

SpecPath == InitPath /\ [][NextPath]_vars

\* A call of find_path runs its loop without interruption: an iteration
\* that can be taken is taken.
SpecPathFair == SpecPath /\ WF_vars(PathStep)

(***************************************************************************)
(* The smart enemy AI: one call of SmartEnemyAI.get_movement_direction for *)
(* an enemy on an open tile, a player on one of a few open tiles, no       *)
(* explosion or one explosion as ExplosionManager.create_explosion makes   *)
(* it, no bomb or one bomb, and a map offset of zero or of the game's      *)
(* window.  r records the direction returned and the values it is made of. *)
(***************************************************************************)
SmartGrids == { RingGrid, CorridorGrid }
SmartPlayerTiles == { <<1, 2>>, <<5, 2>>, <<3, 1>> }
SmartRanges == { NoChaseRange, 2 }
SmartOffsets == { <<0, 0>>, <<offset_x, offset_y>> }

InitAI ==
    /\ tiles \in SmartGrids
    /\ \E b \in { {}, {PathBomb} } :
          grid_bombs = { c \in b : is_empty(tiles, c[1], c[2]) }
    /\ explosions \in
          { << >> } \cup
          { << create_explosion(tiles, c[1], c[2], power) >> :
              c \in { d \in Cells : is_empty(tiles, d[1], d[2]) },
              power \in 1 .. MaxPower }
    /\ \E pt \in { c \in SmartPlayerTiles : is_empty(tiles, c[1], c[2]) },
          alive \in BOOLEAN :
          player = [Player(pt[1], pt[2]) EXCEPT !.alive = alive]
    /\ \E et \in { c \in Cells : is_empty(tiles, c[1], c[2]) } :
          q \in [kind : {"smart"},
                 enemy : { SmartEnemy(et[1], et[2], a, cr) :
                             a \in BOOLEAN, cr \in SmartRanges },
                 offset : SmartOffsets]
    /\ r = [done |-> FALSE]
    /\ soft_walls = {}
    /\ bombs = << >>
    /\ powerups = << >>
    /\ effects = << >>
    /\ game_over = FALSE
    /\ victory = FALSE
    /\ exit_pos = [col |-> 4, row |-> 2, hidden |-> TRUE]
    /\ exploded_bombs = << >>
    /\ new_explosions = << >>
    /\ spawned_powerups = << >>
    /\ last = "load"
    /\ enemies = << >>
    /\ dead_enemies = << >>
    /\ level_data = DefaultLevel

\* SmartEnemyAI.get_movement_direction
QuerySmart ==
    /\ q.kind = "smart" /\ ~r.done
    /\ r' = [done |-> TRUE,
             direction |-> get_movement_direction(q.enemy, tiles, grid_bombs,
                                                  explosions, q.offset, player),
             escape_dir |-> get_escape_direction(grid_bombs, explosions, q.offset,
                                << q.enemy.grid_x, q.enemy.grid_y >>),
             own_tile_safe |-> _is_tile_safe(grid_bombs, explosions, q.offset,
                                             q.enemy.grid_x, q.enemy.grid_y)]
    /\ UNCHANGED << tiles, soft_walls, grid_bombs, bombs, explosions, powerups,
                    effects, player, game_over, victory, exit_pos,
                    exploded_bombs, new_explosions, spawned_powerups, last, q,
                    enemies, dead_enemies, level_data >>

NextAI == QuerySmart

SpecAI == InitAI /\ [][NextAI]_vars

(***************************************************************************)
(* Enemy decisions: Enemy.update called frame after frame on one enemy     *)
(* spawned from an entry of the level description, a basic or a chasing    *)
(* one, with the player standing still and no explosion on the map.  q     *)
(* keeps the level entry, r the number of frames, the last dt and the      *)
(* enemy as it was before the last frame.                                  *)
(***************************************************************************)
ChaseGrids == { RingGrid, CornerGrid }
ChaseEnemyTiles == { <<1, 1>>, <<3, 2>>, <<2, 3>> }
ChasePlayerTiles == { <<5, 3>>, <<3, 3>>, <<4, 2>>, <<1, 1>> }
ChaseBombSets == { {}, { <<3, 1>> }, { <<2, 1>>, <<1, 2>> } }
ChaseRanges == { 2, ChaseRangeDefault }
ChaseDts == { 80, 320 }
MaxChaseTicks == 3

InitChase ==
    /\ tiles \in ChaseGrids
    /\ \E b \in ChaseBombSets :
          grid_bombs = { c \in b : is_empty(tiles, c[1], c[2]) }
    /\ \E pt \in { c \in ChasePlayerTiles : is_empty(tiles, c[1], c[2]) } :
          player = Player(pt[1], pt[2])
    /\ \E et \in { c \in ChaseEnemyTiles : is_empty(tiles, c[1], c[2]) } :
          q \in [kind : {"enemy"},
                 enemy_data : [type : {"basic", "chase"}, col : {et[1]}, row : {et[2]},
                               speed : {EnemySpeed}, chase_range : ChaseRanges]]
    /\ enemies = << IF q.enemy_data.type = "chase"
                    THEN spawn_chase_enemy(q.enemy_data)
                    ELSE BasicEnemy(q.enemy_data.col, q.enemy_data.row) >>
    /\ r = [done |-> FALSE, ticks |-> 0, dt |-> 0]
    /\ soft_walls = {}
    /\ bombs = << >>
    /\ explosions = << >>
    /\ powerups = << >>
    /\ effects = << >>
    /\ game_over = FALSE
    /\ victory = FALSE
    /\ exit_pos = [col |-> 4, row |-> 2, hidden |-> TRUE]
    /\ exploded_bombs = << >>
    /\ new_explosions = << >>
    /\ spawned_powerups = << >>
    /\ last = "load"
    /\ dead_enemies = << >>
    /\ level_data = DefaultLevel

\* Enemy.update of the chasing enemy
ChaseTick(dt) ==
    /\ q.kind = "enemy" /\ q.enemy_data.type = "chase"
    /\ r.ticks < MaxChaseTicks
    /\ \E e \in chase_update(enemies[1], tiles, grid_bombs, explosions, player, dt) :
          enemies' = << e >>
    /\ r' = [done |-> TRUE, ticks |-> r.ticks + 1, dt |-> dt, before |-> enemies[1]]
    /\ last' = "enemy"
    /\ UNCHANGED << tiles, soft_walls, grid_bombs, bombs, explosions, powerups,
                    effects, player, game_over, victory, exit_pos,
                    exploded_bombs, new_explosions, spawned_powerups, q,
                    dead_enemies, level_data >>

\* Enemy.update of the basic enemy
WanderTick(dt) ==
    /\ q.kind = "enemy" /\ q.enemy_data.type = "basic"
    /\ r.ticks < MaxChaseTicks
    /\ \E e \in enemy_update(enemies[1], tiles, grid_bombs, explosions, dt) :
          enemies' = << e >>
    /\ r' = [done |-> TRUE, ticks |-> r.ticks + 1, dt |-> dt, before |-> enemies[1]]
    /\ last' = "enemy"
    /\ UNCHANGED << tiles, soft_walls, grid_bombs, bombs, explosions, powerups,
                    effects, player, game_over, victory, exit_pos,
                    exploded_bombs, new_explosions, spawned_powerups, q,
                    dead_enemies, level_data >>

NextChase == \E dt \in ChaseDts : ChaseTick(dt) \/ WanderTick(dt)

SpecChase == InitChase /\ [][NextChase]_vars

(***************************************************************************)
(* The exit of a level.  The level description is a dictionary; its "exit" *)
(* entry, when there is one, is a dictionary with any of the keys "col",   *)
(* "row" and "hidden_under_soft_wall".  A dictionary is a record with the  *)
(* set of its keys; the field of an absent key is 0 or FALSE and is never  *)
(* read.  Three places of the code read the exit cell from the level.      *)
(***************************************************************************)
ExitKeys == {"col", "row", "hidden_under_soft_wall"}
ExitCols == {3, 11}
ExitRows == {2, 5, 9}

\* dict.get(key, default)
Get(d, key, default) == IF key \in d.keys THEN d[key] ELSE default

EmptyDict == [keys |-> {}, col |-> 0, row |-> 0, hidden_under_soft_wall |-> FALSE]

ExitDescriptors ==
    { d \in [keys : SUBSET ExitKeys, col : ExitCols \cup {0},
             row : ExitRows \cup {0}, hidden_under_soft_wall : BOOLEAN] :
        /\ ("col" \in d.keys) = (d.col \in ExitCols)
        /\ ("row" \in d.keys) = (d.row \in ExitRows)
        /\ "hidden_under_soft_wall" \notin d.keys => ~d.hidden_under_soft_wall }

\* Level descriptions with and without an "exit" entry.
ExitLevels ==
    { l \in [keys : {{}, {"exit"}}, exit : ExitDescriptors] :
        "exit" \notin l.keys => l.exit = EmptyDict }

ExitColDefault == 11
ExitRowDefaultLoad == 5
ExitRowDefaultFrame == 9

\* Spawner.load_level: the cell made the exit, visible or under a soft wall.
load_level_exit(level) ==
    LET exit_data == Get(level, "exit", EmptyDict)
    IN  [col |-> Get(exit_data, "col", ExitColDefault),
         row |-> Get(exit_data, "row", ExitRowDefaultLoad),
         hidden |-> Get(exit_data, "hidden_under_soft_wall", TRUE)]

\* GameScene.update: the exit_pos handed to BombManager.update, the cell
\* Grid.destroy_soft_wall turns into the exit.
update_exit_pos(level) ==
    LET exit_data == Get(level, "exit", EmptyDict)
    IN  << Get(exit_data, "col", ExitColDefault),
           Get(exit_data, "row", ExitRowDefaultFrame) >>

\* GameScene._check_victory_condition: the cell the player has to stand on.
victory_exit(level) ==
    LET exit_data == Get(level, "exit", EmptyDict)
    IN  << Get(exit_data, "col", ExitColDefault),
           Get(exit_data, "row", ExitRowDefaultFrame) >>

InitExit ==
    /\ q \in [kind : {"exit"}, level : ExitLevels]
    /\ r = [done |-> FALSE, load |-> NoCell, hidden |-> FALSE,
            destroy |-> NoCell, victory |-> NoCell]
    /\ tiles = RingGrid
    /\ grid_bombs = {}
    /\ player = Player(1, 1)
    /\ enemies = << >>
    /\ soft_walls = {}
    /\ bombs = << >>
    /\ explosions = << >>
    /\ powerups = << >>
    /\ effects = << >>
    /\ game_over = FALSE
    /\ victory = FALSE
    /\ exit_pos = [col |-> 4, row |-> 2, hidden |-> TRUE]
    /\ exploded_bombs = << >>
    /\ new_explosions = << >>
    /\ spawned_powerups = << >>
    /\ last = "load"
    /\ dead_enemies = << >>
    /\ level_data = DefaultLevel

\* Spawner.load_level, the exit
ExitLoad ==
    /\ q.kind = "exit" /\ r.load = NoCell
    /\ r' = [r EXCEPT !.load = << load_level_exit(q.level).col,
                                  load_level_exit(q.level).row >>,
                      !.hidden = load_level_exit(q.level).hidden]
    /\ last' = "exit"
    /\ UNCHANGED << tiles, soft_walls, grid_bombs, bombs, explosions, powerups,
                    effects, player, game_over, victory, exit_pos,
                    exploded_bombs, new_explosions, spawned_powerups, q,
                    enemies, dead_enemies, level_data >>

\* GameScene.update, the exit position of the frame
ExitUpdate ==
    /\ q.kind = "exit" /\ r.load # NoCell /\ r.destroy = NoCell
    /\ r' = [r EXCEPT !.destroy = update_exit_pos(q.level)]
    /\ last' = "exit"
    /\ UNCHANGED << tiles, soft_walls, grid_bombs, bombs, explosions, powerups,
                    effects, player, game_over, victory, exit_pos,
                    exploded_bombs, new_explosions, spawned_powerups, q,
                    enemies, dead_enemies, level_data >>

\* GameScene._check_victory_condition, the exit tested
ExitVictory ==
    /\ q.kind = "exit" /\ r.load # NoCell /\ r.victory = NoCell
    /\ r' = [r EXCEPT !.victory = victory_exit(q.level), !.done = TRUE]
    /\ last' = "exit"
    /\ UNCHANGED << tiles, soft_walls, grid_bombs, bombs, explosions, powerups,
                    effects, player, game_over, victory, exit_pos,
                    exploded_bombs, new_explosions, spawned_powerups, q,
                    enemies, dead_enemies, level_data >>

NextExit == ExitLoad \/ ExitUpdate \/ ExitVictory

SpecExit == InitExit /\ [][NextExit]_vars

(***************************************************************************)
(* Properties of the bomb / explosion / grid subsystem.                    *)
(***************************************************************************)

\* The set of tiles of a tile list.  new_explosions[i] is the explosion
\* created for exploded_bombs[i].
TilesOf(s) == Range(s)

\* C1: every explosion created in an update covers exactly the tile set its
\* bomb computed and froze when it exploded (Bomb.explosion_tiles).
C1_ExplosionCoversFrozenTiles ==
    \A i \in 1 .. Len(new_explosions) :
        TilesOf(new_explosions[i].tiles) = TilesOf(exploded_bombs[i].explosion_tiles)

\* The divergence: an explosion reaches a tile behind a soft wall which the
\* same blast destroyed, a tile its bomb never listed.
C1_BlastBeyondDestroyedWall ==
    \E i \in 1 .. Len(new_explosions) :
        \E t \in TilesOf(new_explosions[i].tiles)
                   \ TilesOf(exploded_bombs[i].explosion_tiles) :
            \E w \in TilesOf(exploded_bombs[i].explosion_tiles) :
                /\ w \notin soft_walls
                /\ tiles[w] \in {EMPTY, EXIT}
                /\ Abs(t[1] - exploded_bombs[i].grid_x)
                     > Abs(w[1] - exploded_bombs[i].grid_x)

\* The tiles of a list of bombs, and the bomb of a list standing on tile t.
BombTiles(bs) == { <<bs[i].grid_x, bs[i].grid_y>> : i \in 1 .. Len(bs) }
BombAt(bs, t) ==
    bs[CHOOSE i \in 1 .. Len(bs) : <<bs[i].grid_x, bs[i].grid_y>> = t]

\* The union of the tile sets frozen by the bombs of a list.
Footprint(bs) == UNION { TilesOf(bs[i].explosion_tiles) : i \in 1 .. Len(bs) }

ExitCell == <<exit_pos.col, exit_pos.row>>

\* C4: in the update in which bombs explode, every soft wall in their frozen
\* tile sets becomes EMPTY (EXIT at the exit coordinate), and no tile outside
\* those tile sets changes.
C4_BlastFrame ==
    [][ \A c \in Cells :
          IF tiles[c] = SOFT_WALL /\ exploded_bombs' # << >>
             /\ c \in Footprint(exploded_bombs')
          THEN tiles'[c] = (IF c = ExitCell THEN EXIT ELSE EMPTY)
          ELSE tiles'[c] = tiles[c] ]_vars

\* A soft wall has just been destroyed by the blast of an exploded bomb,
\* while a soft wall outside the bomb's tile set, behind the destroyed one
\* and inside the explosion, still stands.
C4_WallDestroyed ==
    /\ \E c \in Footprint(exploded_bombs) :
           /\ load_level(exit_pos)[c] = SOFT_WALL
           /\ tiles[c] # SOFT_WALL
    /\ \E i \in 1 .. Len(new_explosions) :
           /\ new_explosions[i] \in Range(explosions)
           /\ \E c \in TilesOf(new_explosions[i].tiles) \ Footprint(exploded_bombs) :
                  tiles[c] = SOFT_WALL

\* C5: the explosion of the detonation tick exists before that tick's hit
\* test, so a living player never ends a tick inside the footprint of an
\* explosion created in it.
C5_HitTestSeesNewExplosion ==
    \A i \in 1 .. Len(new_explosions) :
        (new_explosions[i] \in Range(explosions) /\ player.alive)
            => ~check_hit_position(new_explosions[i], player.x, player.y,
                                   PlayerRadius * 7)

\* C6: a hard wall never changes, an EMPTY or EXIT tile never changes, and a
\* soft wall only ever changes to EMPTY or, exactly at the exit coordinate,
\* to EXIT.
C6_TileTransitions ==
    [][ \A c \in Cells :
          /\ tiles[c] = HARD_WALL => tiles'[c] = HARD_WALL
          /\ tiles[c] \in {EMPTY, EXIT} => tiles'[c] = tiles[c]
          /\ tiles[c] = SOFT_WALL =>
                tiles'[c] \in {SOFT_WALL, IF c = ExitCell THEN EXIT ELSE EMPTY} ]_vars

\* A soft wall at the exit coordinate has become EXIT, or one elsewhere EMPTY.
C6_SoftWallGone ==
    \E c \in Cells :
        /\ load_level(exit_pos)[c] = SOFT_WALL
        /\ tiles[c] = (IF c = ExitCell THEN EXIT ELSE EMPTY)

\* C8: the bomb-occupancy set of the grid is exactly the set of tiles of the
\* armed bombs of the manager, one bomb per tile.
C8_OccupancyIsArmedBombs ==
    /\ grid_bombs = BombTiles(bombs)
    /\ Cardinality(grid_bombs) = Len(bombs)
    /\ \A i \in 1 .. Len(bombs) : ~bombs[i].exploded

\* A bomb is armed after another one has exploded and left the set.
C8_BombArmedAfterExplosion ==
    /\ bombs # << >>
    /\ exploded_bombs # << >>
    /\ BombTiles(exploded_bombs) \cap grid_bombs = {}

\* C9: an armed bomb explodes in the first update at which its fuse time has
\* reached the fuse duration or it has been triggered, and in no earlier one;
\* no exploded bomb is armed again; an update (whatever its dt) leaves no
\* triggered bomb in the manager or in the occupancy set.
C9_FuseOrTrigger ==
    /\ \A i \in 1 .. Len(bombs) :
           ~bombs[i].exploded /\ bombs[i].elapsed < BOMB_FUSE_TIME
    /\ \A i \in 1 .. Len(exploded_bombs) :
           /\ exploded_bombs[i].exploded
           /\ exploded_bombs[i].elapsed >= BOMB_FUSE_TIME
                \/ exploded_bombs[i].triggered
    /\ last = "update" =>
           /\ \A i \in 1 .. Len(bombs) : ~bombs[i].triggered
           /\ grid_bombs = BombTiles(bombs)

\* Two bombs triggered before their fuse time have exploded in one update,
\* which left no armed bomb and an empty occupancy set.
C9_TriggeredAllGone ==
    /\ Len(exploded_bombs) = 2
    /\ \A i \in 1 .. 2 : /\ exploded_bombs[i].triggered
                         /\ exploded_bombs[i].elapsed < BOMB_FUSE_TIME
    /\ bombs = << >>
    /\ grid_bombs = {}
    /\ last = "update"

\* The fuse time a bomb standing on tile t gained in the step.
FuseGain(t) ==
    (IF t \in BombTiles(bombs') THEN BombAt(bombs', t).elapsed
     ELSE BombAt(exploded_bombs', t).elapsed) - BombAt(bombs, t).elapsed

\* C10: through every update an armed bomb either stays armed and in the
\* occupancy set, or explodes because its own fuse time has reached the fuse
\* duration or it was triggered; all bombs gain the same fuse time.
C10_NoChainDetonation ==
    [][ IF last' = "trigger"
        THEN \A i \in 1 .. Len(bombs) : bombs'[i].elapsed = bombs[i].elapsed
        ELSE /\ \A t \in BombTiles(bombs) :
                  \/ /\ t \in BombTiles(bombs')
                     /\ t \in grid_bombs'
                     /\ ~BombAt(bombs', t).exploded
                  \/ /\ t \in BombTiles(exploded_bombs')
                     /\ BombAt(exploded_bombs', t).elapsed >= BOMB_FUSE_TIME
                          \/ BombAt(bombs, t).triggered
             /\ \A t, u \in BombTiles(bombs) : FuseGain(t) = FuseGain(u) ]_vars

\* An armed bomb, placed in an earlier frame, stands inside the footprint of an
\* explosion that has just been created.
C10_ArmedBombInBlast ==
    \E i \in 1 .. Len(bombs) : \E j \in 1 .. Len(explosions) :
        /\ explosions[j].elapsed = 0
        /\ explosions[j] \in Range(new_explosions)
        /\ bombs[i].elapsed > 320
        /\ ~bombs[i].triggered
        /\ last = "update"
        /\ <<bombs[i].grid_x, bombs[i].grid_y>> \in TilesOf(explosions[j].tiles)
        /\ <<bombs[i].grid_x, bombs[i].grid_y>> \in grid_bombs

\* An obstacle of an arm: a cell off the grid, a hard wall or a soft wall.
ArmObstacle(g, cx, cy, k, d) ==
    \/ ArmCell(cx, cy, k, d) \notin Cells
    \/ g[ArmCell(cx, cy, k, d)] \in {HARD_WALL, SOFT_WALL}

\* The distance of the nearest obstacle of arm k within p steps, 0 for none.
NearestObstacle(g, cx, cy, k, p) ==
    IF \E d \in 1 .. p : ArmObstacle(g, cx, cy, k, d)
    THEN CHOOSE d \in 1 .. p :
             /\ ArmObstacle(g, cx, cy, k, d)
             /\ \A e \in 1 .. d - 1 : ~ArmObstacle(g, cx, cy, k, e)
    ELSE 0

\* The tiles of a result that lie on arm k of (cx, cy).
OnArm(tls, cx, cy, k) ==
    { t \in TilesOf(tls) : \E i \in 1 .. GridW + GridH : t = ArmCell(cx, cy, k, i) }

FreeArms(g, cx, cy, p) ==
    \A k \in 1 .. 4 : NearestObstacle(g, cx, cy, k, p) = 0

\* C2: when no arm of the centre has a wall or the grid edge within p steps,
\* get_explosion_tiles returns 4p+1 distinct tiles, the centre and p tiles of
\* each arm.
C2_OpenBlastSize ==
    (q.kind = "explosion" /\ r.done /\ FreeArms(tiles, q.x, q.y, q.power)) =>
        /\ Len(r.tiles) = 4 * q.power + 1
        /\ Cardinality(TilesOf(r.tiles)) = 4 * q.power + 1
        /\ TilesOf(r.tiles) =
              { <<q.x, q.y>> } \cup
              { ArmCell(q.x, q.y, k, i) : k \in 1 .. 4, i \in 1 .. q.power }

\* A blast of full power with four free arms, through the exit tile and a
\* tile occupied by a bomb.
C2_FullBlastThroughExitAndBomb ==
    /\ q.kind = "explosion" /\ r.done /\ q.power = MaxPower
    /\ FreeArms(tiles, q.x, q.y, q.power)
    /\ \E t \in TilesOf(r.tiles) : tiles[t] = EXIT
    /\ \E t \in TilesOf(r.tiles) : t \in grid_bombs

\* The number of tiles arm k must contribute.
ArmLength(g, cx, cy, k, p) ==
    LET d == NearestObstacle(g, cx, cy, k, p)
    IN  IF d = 0 THEN p
        ELSE IF ArmCell(cx, cy, k, d) \in Cells
                /\ g[ArmCell(cx, cy, k, d)] = SOFT_WALL
        THEN d
        ELSE d - 1

\* C3: each arm contributes the tiles up to its nearest obstacle within p
\* steps: d-1 tiles before a hard wall or the grid edge at distance d, d
\* tiles up to and including a soft wall at distance d, p tiles without an
\* obstacle, whatever stands on the other arms.
C3_ArmTruncation ==
    (q.kind = "explosion" /\ r.done) =>
        /\ \A k \in 1 .. 4 :
              OnArm(r.tiles, q.x, q.y, k) =
                  { ArmCell(q.x, q.y, k, i) :
                      i \in 1 .. ArmLength(tiles, q.x, q.y, k, q.power) }
        /\ TilesOf(r.tiles) =
              { <<q.x, q.y>> } \cup
              UNION { OnArm(r.tiles, q.x, q.y, k) : k \in 1 .. 4 }
        /\ Len(r.tiles) = Cardinality(TilesOf(r.tiles))

\* One blast whose arms meet a hard wall, a soft wall and the grid edge, each
\* at distance two, and one free arm.
C3_ThreeObstacles ==
    /\ q.kind = "explosion" /\ r.done /\ q.power >= 2
    /\ \E k1, k2, k3, k4 \in 1 .. 4 :
          /\ Cardinality({k1, k2, k3, k4}) = 4
          /\ ArmCell(q.x, q.y, k1, 2) \in Cells
          /\ tiles[ArmCell(q.x, q.y, k1, 2)] = HARD_WALL
          /\ Cardinality(OnArm(r.tiles, q.x, q.y, k1)) = 1
          /\ ArmCell(q.x, q.y, k2, 2) \in Cells
          /\ tiles[ArmCell(q.x, q.y, k2, 2)] = SOFT_WALL
          /\ Cardinality(OnArm(r.tiles, q.x, q.y, k2)) = 2
          /\ ArmCell(q.x, q.y, k3, 1) \in Cells
          /\ ArmCell(q.x, q.y, k3, 2) \notin Cells
          /\ Cardinality(OnArm(r.tiles, q.x, q.y, k3)) = 1
          /\ Cardinality(OnArm(r.tiles, q.x, q.y, k4)) = q.power

\* C7: a cell outside the grid is a wall and is not empty, and a circle
\* centred outside the grid collides, whatever the border tiles.
C7_OutsideIsBlocking ==
    /\ (q.kind = "coord" /\ r.done /\ ~is_valid_grid(q.x, q.y)) =>
           (r.is_wall /\ ~r.is_empty)
    /\ (q.kind = "circle" /\ r.done
        /\ ~(/\ offset_x <= q.x /\ q.x < offset_x + GridW * TILE_SIZE
             /\ offset_y <= q.y /\ q.y < offset_y + GridH * TILE_SIZE)) =>
           r.type # CT_NONE

\* The divergence: a cell outside a grid with an open border tile is found
\* empty and no wall.
C7_OutsideFoundEmpty ==
    /\ q.kind = "coord" /\ r.done /\ ~is_valid_grid(q.x, q.y)
    /\ ~r.is_wall /\ r.is_empty

(***************************************************************************)
(* Properties of bomb placement and of power-ups.                          *)
(***************************************************************************)

\* The tiles of the bombs created in an update step (a bomb created in a
\* frame as long as the fuse explodes in it).
NewBombTiles ==
    IF last' = "update"
    THEN (BombTiles(bombs') \cup BombTiles(exploded_bombs')) \ BombTiles(bombs)
    ELSE {}

PlayerTile(p) == <<p.grid_x, p.grid_y>>

\* C11: a bomb is created only for a living player whose in-flight count is
\* below its bomb count, on the player's tile, which is EMPTY or EXIT and
\* holds no bomb; so no two armed bombs share a tile and none stands on a
\* hard or soft wall.
C11_PlacementGate ==
    /\ [] /\ \A i \in 1 .. Len(bombs) :
                tiles[<<bombs[i].grid_x, bombs[i].grid_y>>] \in {EMPTY, EXIT}
          /\ \A i, j \in 1 .. Len(bombs) :
                i # j => <<bombs[i].grid_x, bombs[i].grid_y>>
                           # <<bombs[j].grid_x, bombs[j].grid_y>>
    /\ [][ \A t \in NewBombTiles :
             /\ player.alive /\ player'.alive
             /\ player.placed_bombs < player'.bomb_count
             /\ t = PlayerTile(player')
             /\ tiles[t] \in {EMPTY, EXIT}
             /\ t \notin grid_bombs ]_vars

\* Two bombs of the player are armed on two tiles, one of them just placed.
C11_TwoBombsArmed ==
    /\ Len(bombs) = 2
    /\ player.placed_bombs = 2
    /\ last = "update"
    /\ bombs[2].elapsed <= 320
    /\ PlayerTile(player) = <<bombs[2].grid_x, bombs[2].grid_y>>

\* C12: when a bomb is placed while an earlier bomb is still armed, the
\* cooldown started by the earlier placement has run out, so the earlier
\* bomb's fuse time (which counts at least the frames since its placement)
\* has reached the cooldown time.
C12_CooldownBetweenPlacements ==
    [][ \A t \in NewBombTiles :
          \A i \in 1 .. Len(bombs') :
             <<bombs'[i].grid_x, bombs'[i].grid_y>> # t
                 => bombs'[i].elapsed >= BOMB_COOLDOWN ]_vars

\* The divergence: two bombs armed on two tiles, the first placed less than
\* the cooldown time before.
C12_SecondBombWithinCooldown ==
    /\ Len(bombs) = 2
    /\ bombs[1].elapsed < BOMB_COOLDOWN
    /\ <<bombs[1].grid_x, bombs[1].grid_y>> # <<bombs[2].grid_x, bombs[2].grid_y>>
    /\ player.placed_bombs = 2
    /\ last = "update"

\* C13: placed_bombs is the number of armed bombs of the player, between 0
\* and the bomb count; an update adds one for the bomb it places and takes
\* one for each of the player's bombs that explode in it.
C13_InFlightCount ==
    /\ [] /\ player.placed_bombs
                = Cardinality({i \in 1 .. Len(bombs) : bombs[i].owner_id = PLAYER_ID})
          /\ 0 <= player.placed_bombs
          /\ player.placed_bombs <= player.bomb_count
    /\ [][ last' = "update" =>
             player'.placed_bombs =
                 player.placed_bombs + Cardinality(NewBombTiles)
                 - Cardinality({i \in 1 .. Len(exploded_bombs') :
                                   exploded_bombs'[i].owner_id = PLAYER_ID}) ]_vars

\* Two bombs of the player have exploded in one update, by their fuses.
C13_TwoExplodeTogether ==
    /\ Len(exploded_bombs) = 2
    /\ \A i \in 1 .. 2 : ~exploded_bombs[i].triggered
    /\ player.placed_bombs = 0
    /\ player.bomb_count = 2
    /\ last = "update"

\* C14: every power-up created in an update stands on a tile whose soft wall
\* was destroyed in that update.
C14_PowerupOnDestroyedWall ==
    [][ last' = "update" =>
          \A i \in 1 .. Len(spawned_powerups') :
             LET t == <<spawned_powerups'[i].grid_x, spawned_powerups'[i].grid_y>>
             IN  tiles[t] = SOFT_WALL /\ tiles'[t] # SOFT_WALL ]_vars

\* The divergence: a power-up created on the tile of the bomb that exploded.
C14_PowerupOnBombTile ==
    /\ last = "update"
    /\ \E i \in 1 .. Len(spawned_powerups) :
          /\ <<spawned_powerups[i].grid_x, spawned_powerups[i].grid_y>>
                \in BombTiles(exploded_bombs)
          /\ spawned_powerups[i] \in Range(powerups)

\* A list without its element of index k.
RemoveAt(s, k) == SubSeq(s, 1, k - 1) \o SubSeq(s, k + 1, Len(s))

\* C15: an update adds at most one effect; when it adds one, a power-up of
\* that kind was on the player's tile and has left the list, and add_effect
\* on the collected power-up returns None and adds nothing; no collected
\* power-up is in the list at the end of an update.
C15_CollectedOnce ==
    /\ [] \A i \in 1 .. Len(powerups) : ~powerups[i].collected
    /\ [][ last' = "update" =>
             /\ Len(effects') - Len(effects) \in {0, 1}
             /\ SubSeq(effects', 1, Len(effects)) = effects
             /\ Len(effects') = Len(effects) =>
                    powerups' = powerups \o spawned_powerups'
             /\ Len(effects') = Len(effects) + 1 =>
                    \E k \in 1 .. Len(powerups) :
                       LET taken == [powerups EXCEPT ![k].collected = TRUE]
                       IN  /\ <<powerups[k].grid_x, powerups[k].grid_y>>
                                 = PlayerTile(player')
                           /\ effects'[Len(effects')].type = powerups[k].type
                           /\ powerups' = RemoveAt(powerups, k) \o spawned_powerups'
                           /\ add_effect(taken, effects', k)
                                 = [effect |-> "None", powerups |-> taken,
                                    effects |-> effects'] ]_vars

\* The player has collected a power-up: its effect is active and the list of
\* power-ups is empty again.
C15_PowerupCollected ==
    /\ Len(effects) = 1
    /\ powerups = << >>
    /\ spawned_powerups = << >>
    /\ player.bomb_count + player.bomb_power
          = INITIAL_BOMB_COUNT + INITIAL_BOMB_POWER + 1
    /\ last = "update"

(***************************************************************************)
(* Properties of the bonus aggregation and of movement.                    *)
(***************************************************************************)

NumOf(effs, t) == Cardinality({ i \in 1 .. Len(effs) : effs[i].type = t })

RECURSIVE Pow(_, _)
Pow(b, k) == IF k = 0 THEN 1 ELSE b * Pow(b, k - 1)

\* C16: get_total_bonus counts the BombIncrease and the FireIncrease effects
\* and multiplies 1.2 (= 6/5) for each SpeedIncrease effect; Player.update
\* sets bomb count and blast power to base + bonus and the speed to base x
\* multiplier.  Two BombIncrease and one SpeedIncrease give bonus 2 and
\* x 1.2, two SpeedIncrease give x 1.44.
C16_TotalBonus ==
    (q.kind = "bonus" /\ r.done) =>
        LET nb == NumOf(effects, BOMB_INCREASE)
            nf == NumOf(effects, FIRE_INCREASE)
            ns == NumOf(effects, SPEED_INCREASE)
        IN  /\ r.bonus.bomb_bonus = nb
            /\ r.bonus.fire_bonus = nf
            /\ r.bonus.speed_num * Pow(5, ns) = r.bonus.speed_den * Pow(6, ns)
            /\ r.player.bomb_count = INITIAL_BOMB_COUNT + nb
            /\ r.player.bomb_power = INITIAL_BOMB_POWER + nf
            /\ r.player.speed * Pow(5, ns)
                  = PLAYER_SPEED_DEFAULT * 1000 * Pow(6, ns)
            /\ (nb = 2 /\ ns = 1) =>
                   /\ r.bonus.bomb_bonus = 2
                   /\ r.bonus.speed_num * 10 = r.bonus.speed_den * 12
            /\ ns = 2 => r.bonus.speed_num * 100 = r.bonus.speed_den * 144

\* Two BombIncrease effects and one SpeedIncrease effect are active: three
\* bombs, speed 180 px/s.
C16_TwoBombsOneSpeed ==
    /\ q.kind = "bonus" /\ r.done
    /\ NumOf(effects, BOMB_INCREASE) = 2
    /\ NumOf(effects, SPEED_INCREASE) = 1
    /\ r.player.bomb_count = 3
    /\ r.player.speed = 180000

\* The displacement of a move query, and the collision reports at the
\* targets of its full, X-only and Y-only displacement for a circle of radius
\* radius10 / 10.
Mv == MoveVector(q.dt, q.dir)
Report(dx, dy, radius10) ==
    check_circle_to_grid(tiles, grid_bombs, q.x + dx, q.y + dy, radius10, TRUE)

C18_BlockedNormal ==
    (/\ q.kind = "move" /\ r.done
     /\ Report(Mv[1], Mv[2], EnemyRadius * 10) # CT_NONE
     /\ Report(Mv[1], 0, EnemyRadius * 10) # CT_NONE
     /\ Report(0, Mv[2], EnemyRadius * 10) # CT_NONE) =>
        /\ r.resolve.x = q.x /\ r.resolve.y = q.y
        /\ r.resolve.normal # << 0, 0 >>
        /\ r.resolve.normal = << -Sgn(Mv[1]), -Sgn(Mv[2]) >>

\* The divergence: a diagonal move from a collision-free position with all
\* three displacements blocked by walls returns the zero normal.
C18_ZeroNormal ==
    /\ q.kind = "move" /\ r.done
    /\ Mv[1] # 0 /\ Mv[2] # 0
    /\ Report(0, 0, EnemyRadius * 10) = CT_NONE
    /\ Report(Mv[1], Mv[2], EnemyRadius * 10) = CT_WALL
    /\ Report(Mv[1], 0, EnemyRadius * 10) = CT_WALL
    /\ Report(0, Mv[2], EnemyRadius * 10) = CT_WALL
    /\ r.resolve.x = q.x /\ r.resolve.y = q.y
    /\ r.resolve.normal = << 0, 0 >>

\* The target of a displacement is free of walls for the player's circle.
WallFree(dx, dy) ==
    check_circle_to_grid(tiles, grid_bombs, q.x + dx, q.y + dy,
                         PlayerRadius * 8, FALSE) # CT_WALL

\* C19: a player standing on a bomb tile moves on every axis whose
\* single-axis target is free of walls.
C19_WalkOffOwnBomb ==
    (q.kind = "move" /\ r.done /\ PlayerTile(player) \in grid_bombs) =>
        /\ WallFree(Mv[1], 0) => r.player.x = q.x + Mv[1]
        /\ WallFree(0, Mv[2]) => r.player.y = q.y + Mv[2]

\* The player has walked off the bomb tile it stood on, onto a tile without
\* a bomb, after a move inside the bomb tile was applied as well.
C19_LeftBombTile ==
    /\ q.kind = "move" /\ r.done
    /\ PlayerTile(player) \in grid_bombs
    /\ PlayerTile(r.player) # PlayerTile(player)
    /\ PlayerTile(r.player) \notin grid_bombs
    /\ r.player.x = q.x + Mv[1] /\ r.player.y = q.y + Mv[2]

\* C20: an update leaves the player's centre on a tile that held a bomb
\* before the update only if the player was on that tile already.
C20_NeverOntoBombTile ==
    [][ last' = "update" =>
          (PlayerTile(player') \in grid_bombs
              => PlayerTile(player') = PlayerTile(player)) ]_vars

\* The divergence: the player stands on the tile of its first bomb, which it
\* had left to place the second one on another tile.
C20_BackOnFirstBomb ==
    /\ Len(bombs) = 2
    /\ PlayerTile(player) = <<bombs[1].grid_x, bombs[1].grid_y>>
    /\ PlayerTile(player) # <<bombs[2].grid_x, bombs[2].grid_y>>
    /\ player.alive
    /\ last = "update"

(***************************************************************************)
(* Properties of repeated destruction, of entities' lives, of path search  *)
(* and of the enemy AI.                                                    *)
(***************************************************************************)

\* C21: destroy_soft_wall on a SOFT_WALL tile returns True and changes that
\* tile (and nothing else but its membership in the soft-wall set); every
\* further call on the tile returns False and leaves tiles, soft-wall set
\* and bomb set as they were after the first call; on a HARD_WALL, EMPTY or
\* EXIT tile the call returns False and changes nothing.
C21_DestroyTwice ==
    (q.kind = "destroy" /\ Len(r.rets) >= 1) =>
        LET c == <<q.x, q.y>>
            was_soft == r.init.tiles[c] = SOFT_WALL
        IN  /\ r.rets[1] = was_soft
            /\ was_soft =>
                  /\ r.snaps[1].tiles[c] \in {EMPTY, EXIT}
                  /\ \A d \in Cells \ {c} : r.snaps[1].tiles[d] = r.init.tiles[d]
                  /\ r.snaps[1].soft_walls = r.init.soft_walls \ {c}
                  /\ r.snaps[1].grid_bombs = r.init.grid_bombs
            /\ ~was_soft => r.snaps[1] = r.init
            /\ \A k \in 2 .. Len(r.rets) :
                  /\ r.rets[k] = FALSE
                  /\ r.snaps[k] = r.snaps[1]
            /\ tiles = r.snaps[Len(r.snaps)].tiles
            /\ soft_walls = r.snaps[Len(r.snaps)].soft_walls

\* A soft wall was destroyed by the first of three calls; the two others
\* returned False.
C21_ThreeCallsOnSoftWall ==
    /\ q.kind = "destroy"
    /\ r.init.tiles[<<q.x, q.y>>] = SOFT_WALL
    /\ r.rets = << TRUE, FALSE, FALSE >>
    /\ tiles[<<q.x, q.y>>] = EXIT

\* C28: loading a level description whose exit cell lies outside the grid
\* ends in an error, and leaves no loaded level behind.
C28_OutOfBoundsExitFails ==
    (q.kind = "load" /\ r.done /\ ~is_valid_grid(q.exit.col, q.exit.row)) =>
        /\ r.raised
        /\ tiles = OpenGrid

\* The divergence: the level is loaded without an error, its exit cell is
\* outside the grid, no tile is or hides an exit, and for a hidden exit the
\* soft-wall set holds a cell that is not on the grid.
C28_LoadedWithoutExit ==
    /\ q.kind = "load" /\ r.done /\ ~r.raised
    /\ q.exit.hidden
    /\ ~is_valid_grid(q.exit.col, q.exit.row)
    /\ tiles = load_from_data
    /\ exit_pos = q.exit
    /\ <<q.exit.col, q.exit.row>> \in soft_walls
    /\ \A c \in Cells : tiles[c] # EXIT

\* The effects of a list that outlive a frame of dt, aged by dt.
Outlives(e, dt) == ~has_timer(e) \/ e.elapsed + dt < e.duration
RECURSIVE Survivors(_, _)
Survivors(effs, dt) ==
    IF effs = << >> THEN << >>
    ELSE LET e == Head(effs)
         IN  (IF Outlives(e, dt)
              THEN << IF has_timer(e) THEN [e EXCEPT !.elapsed = @ + dt] ELSE e >>
              ELSE << >>) \o Survivors(Tail(effs), dt)

\* C29: a timed effect is in the active list, with its full bonus, exactly
\* while its elapsed time is below its duration; the update in which the
\* elapsed time reaches the duration removes it and changes nothing of the
\* other effects but their own elapsed time; the stats Player.update
\* computes in a frame are those of the list as the previous frame left it.
C29_TimedEffectExpiry ==
    /\ [] (q.kind = "expire" =>
             \A i \in 1 .. Len(effects) :
                has_timer(effects[i]) =>
                   /\ effects[i].active
                   /\ effects[i].elapsed < effects[i].duration
                   /\ effects[i] = [PowerupEffectTimed(effects[i].type,
                                                       effects[i].duration)
                                       EXCEPT !.elapsed = effects[i].elapsed])
    /\ [][ q.kind = "expire" =>
             /\ effects' = Survivors(effects, r'.dt)
             /\ player'.bomb_count
                   = INITIAL_BOMB_COUNT + NumOf(effects, BOMB_INCREASE)
             /\ player'.bomb_power
                   = INITIAL_BOMB_POWER + NumOf(effects, FIRE_INCREASE)
             /\ player'.speed * Pow(5, NumOf(effects, SPEED_INCREASE))
                   = PLAYER_SPEED_DEFAULT * 1000
                       * Pow(6, NumOf(effects, SPEED_INCREASE)) ]_vars

\* A timed BombIncrease effect has just expired while a timed FireIncrease
\* effect with a longer duration goes on: the stats of this frame still
\* count the bomb effect, the list no longer holds it.
C29_OneExpiredOneLeft ==
    /\ q.kind = "expire" /\ r.done
    /\ Len(effects) = 1
    /\ has_timer(effects[1])
    /\ effects[1].type = FIRE_INCREASE
    /\ effects[1].elapsed >= 500
    /\ player.bomb_count = INITIAL_BOMB_COUNT + 1
    /\ player.bomb_power = INITIAL_BOMB_POWER + 1



\* The tiles from which a path may continue, and the length of the shortest
\* walk from start to goal over them (-1 when there is none), by breadth-
\* first layers; the start tile itself is not examined.
Walkable(g, gb, avoid_bombs, c) ==
    /\ c \in Cells
    /\ g[c] \in {EMPTY, EXIT}
    /\ avoid_bombs => c \notin gb

Adjacent(a, b) == Abs(a[1] - b[1]) + Abs(a[2] - b[2]) = 1

Grow(g, gb, avoid_bombs, R) ==
    R \cup { c \in Cells : /\ Walkable(g, gb, avoid_bombs, c)
                           /\ \E d \in R : Adjacent(c, d) }

\* The layer after R is bound as a value before it is compared and passed on.
RECURSIVE LayerDistance(_, _, _, _, _, _)
LayerDistance(g, gb, avoid_bombs, R, n, goal) ==
    IF goal \in R THEN n
    ELSE CHOOSE d \in { IF R2 = R THEN -1
                        ELSE LayerDistance(g, gb, avoid_bombs, R2, n + 1, goal) :
                        R2 \in { Grow(g, gb, avoid_bombs, R) } } : TRUE

WalkDistance == LayerDistance(tiles, grid_bombs, q.avoid_bombs, {q.start}, 0, q.goal)

\* C23: a path returned by find_path starts at start, ends at goal, moves
\* between 4-adjacent tiles, runs after the start over Empty or Exit tiles
\* only (bomb-free when avoid_bombs is set), and has as many steps as the
\* shortest walk from start to goal; on the single straight corridor that is
\* the Manhattan distance.
C23_PathShortest ==
    (q.kind = "path" /\ r.done /\ r.found) =>
        /\ Len(r.path) >= 1
        /\ r.path[1] = q.start
        /\ r.path[Len(r.path)] = q.goal
        /\ \A i \in 1 .. Len(r.path) - 1 : Adjacent(r.path[i], r.path[i + 1])
        /\ \A i \in 2 .. Len(r.path) :
              Walkable(tiles, grid_bombs, q.avoid_bombs, r.path[i])
        /\ Len(r.path) - 1 = WalkDistance
        /\ tiles = CorridorGrid => Len(r.path) - 1 = _heuristic(q.start, q.goal)

\* A path that goes round a bomb, longer than the Manhattan distance.
C23_DetourRoundBomb ==
    /\ q.kind = "path" /\ r.done /\ r.found
    /\ q.avoid_bombs /\ grid_bombs # {}
    /\ Len(r.path) - 1 > _heuristic(q.start, q.goal)

\* A path along the straight corridor, three steps or more.
C23_AlongCorridor ==
    /\ q.kind = "path" /\ r.done /\ r.found
    /\ tiles = CorridorGrid
    /\ Len(r.path) >= 4

\* The tile of a heap entry.
EntryTile(e) == << e[2], e[3] >>

\* C24: find_path terminates, returns None exactly when no walk over
\* walkable (with avoid_bombs, bomb-free) tiles leads from start to goal,
\* and queues a tile it has already reached only at a strictly lower cost.
C24_TerminatesNoneIffUnreachable ==
    /\ <>(q.kind = "path" /\ r.done)
    /\ []((q.kind = "path" /\ r.done) => (r.found <=> WalkDistance # -1))
    /\ [][\A c \in DOMAIN r.cost_so_far :
            /\ r'.cost_so_far[c] <= r.cost_so_far[c]
            /\ (\/ r'.came_from[c] # r.came_from[c]
                \/ \E e \in r'.frontier \ r.frontier : EntryTile(e) = c)
               => r'.cost_so_far[c] < r.cost_so_far[c]]_vars

\* C24 as stated, its last clause: no tile is expanded (popped and its
\* neighbours examined) a second time at an equal or worse cost.
C24_NeverExpandsAgain ==
    q.kind = "path" =>
        \A i, j \in 1 .. Len(r.pops) :
            (i < j /\ r.pops[i].cell = r.pops[j].cell)
                => r.pops[j].cost < r.pops[i].cost

\* A search for a goal that cannot be reached has ended with None after a
\* tile was queued twice and popped twice.
C24_NoneAfterRequeue ==
    /\ q.kind = "path" /\ r.done /\ ~r.found
    /\ Len(r.pops) >= 4
    /\ \E i, j \in 1 .. Len(r.pops) : i < j /\ r.pops[i].cell = r.pops[j].cell

\* The tile of the enemy of a smart-AI query, the footprints of the active
\* explosions, and the 4-neighbours of a tile.
EnemyTile == << q.enemy.grid_x, q.enemy.grid_y >>

InFootprint(c) ==
    \E i \in 1 .. Len(explosions) :
        \E j \in 1 .. Len(explosions[i].tiles) : explosions[i].tiles[j] = c

BombAdjacent(c) ==
    \E k \in 1 .. Len(NeighborDirs) :
        << c[1] + NeighborDirs[k][1], c[2] + NeighborDirs[k][2] >> \in grid_bombs

Neighbours(c) ==
    { n \in Cells : Abs(n[1] - c[1]) + Abs(n[2] - c[2]) = 1 }

\* The neighbours of the enemy's tile outside every footprint, and those
\* among them without a bomb next to them.
OutsideNeighbours == { n \in Neighbours(EnemyTile) : ~InFootprint(n) }
ClearNeighbours == { n \in OutsideNeighbours : ~BombAdjacent(n) }

StepTo(n) == << n[1] - EnemyTile[1], n[2] - EnemyTile[2] >>

\* C25: an alive smart-AI enemy on a tile inside an active footprint, with
\* a 4-neighbour outside every footprint and no bomb adjacent (to its tile
\* or to that neighbour), is told to take a unit step toward a neighbour
\* outside every footprint, whatever the player's position and the map
\* offset.
C25_StepsOutOfFootprint ==
    (/\ q.kind = "smart" /\ r.done /\ q.enemy.alive
     /\ InFootprint(EnemyTile)
     /\ ~BombAdjacent(EnemyTile)
     /\ ClearNeighbours # {})
        => \E n \in OutsideNeighbours : r.direction = StepTo(n)

\* The same with a map offset of zero.
C25_StepsOutAtZeroOffset ==
    q.kind = "smart" /\ q.offset = <<0, 0>> => C25_StepsOutOfFootprint

\* With the offset of the game's window an enemy inside a footprint, next to
\* a tile outside it, has its own tile judged safe and is sent upwards,
\* onto a tile inside the footprint.
C25_SentIntoFootprint ==
    /\ q.kind = "smart" /\ r.done /\ q.enemy.alive
    /\ q.offset = << offset_x, offset_y >>
    /\ InFootprint(EnemyTile)
    /\ grid_bombs = {}
    /\ ClearNeighbours # {}
    /\ r.own_tile_safe
    /\ r.direction = << 0, -1 >>
    /\ InFootprint(<< EnemyTile[1], EnemyTile[2] - 1 >>)

\* The A* path from the enemy to the player, as the chase branch asks for
\* it.
ChasePath ==
    find_path(tiles, grid_bombs, EnemyTile, << player.grid_x, player.grid_y >>, TRUE)

\* C30: an alive smart-AI enemy on a safe tile (outside every footprint, no
\* bomb adjacent), with the player alive within chase range, is told to take
\* the first step of the A* path to the player when there is one, and a
\* wandering direction when there is none.
C30_ChasesFromSafeTile ==
    (/\ q.kind = "smart" /\ r.done /\ q.enemy.alive
     /\ ~InFootprint(EnemyTile) /\ ~BombAdjacent(EnemyTile)
     /\ _can_chase(q.enemy, player))
        => r.direction =
             IF ChasePath.found /\ Len(ChasePath.path) > 1
             THEN StepTo(ChasePath.path[2])
             ELSE smart_get_random_direction(q.enemy, tiles)

\* Without any explosion or bomb, an enemy two steps or more from a player
\* it could reach is sent upwards, against a wall, instead of along the
\* path.
C30_EscapeOnSafeTile ==
    /\ q.kind = "smart" /\ r.done /\ q.enemy.alive
    /\ explosions = << >> /\ grid_bombs = {}
    /\ _can_chase(q.enemy, player)
    /\ ChasePath.found /\ Len(ChasePath.path) > 2
    /\ r.escape_dir = << 0, -1 >>
    /\ r.direction = << 0, -1 >>
    /\ StepTo(ChasePath.path[2]) # << 0, -1 >>
    /\ is_wall(tiles, EnemyTile[1], EnemyTile[2] - 1)

(***************************************************************************)
(* Properties of the game scene with enemies.                              *)
(***************************************************************************)

\* An update step of the game scene, as opposed to a trigger step.
UpdateStep == last' = "update" /\ ~game_over /\ ~victory

\* The enemies of a list that touch the player p.
Touching(ens, p) ==
    { i \in 1 .. Len(ens) :
        circle_collision(<< ens[i].x, ens[i].y >>, EnemyRadius * 8,
                         << p.x, p.y >>, PlayerRadius * 8) }

\* C22: a dead player stays dead and a dead enemy never comes back (it
\* leaves the enemy list, which never grows and holds alive enemies only);
\* an enemy that dies in an update was hit by an explosion at the position
\* it moved to; a player that dies in an update was hit by an explosion at
\* the position it moved to or touches an alive enemy at the end of the
\* update; an enemy touching the player stays alive unless an explosion
\* hits it.
C22_DeathsAndTheirCauses ==
    /\ [](\A i \in 1 .. Len(enemies) : enemies[i].alive)
    /\ [][/\ ~player.alive => ~player'.alive
          /\ Len(enemies') <= Len(enemies)
          /\ UpdateStep =>
                /\ Len(enemies') + Len(dead_enemies') = Len(enemies)
                /\ \A i \in 1 .. Len(dead_enemies') :
                      /\ ~dead_enemies'[i].alive
                      /\ check_any_hit_position(explosions, dead_enemies'[i].x,
                                                dead_enemies'[i].y, EnemyRadius * 8)
                /\ (player.alive /\ ~player'.alive) =>
                      \/ check_any_hit_position(explosions, player'.x, player'.y,
                                                PlayerRadius * 7)
                      \/ Touching(enemies', player') # {}
                /\ \A i \in Touching(enemies', player') : enemies'[i].alive]_vars

\* In one update an enemy was killed by an explosion and the player died
\* touching the other enemy, which lives on, outside every explosion.
C22_KilledEnemyAndContact ==
    /\ dead_enemies # << >>
    /\ ~player.alive /\ game_over
    /\ Touching(enemies, player) # {}
    /\ ~check_any_hit_position(explosions, player.x, player.y, PlayerRadius * 7)

\* The player's cell is the exit cell.
OnExit(p) == p.grid_x = exit_pos.col /\ p.grid_y = exit_pos.row

\* C26: victory is set only in an update that leaves the player alive on
\* the exit cell and no enemy alive, and it is then kept with that state; an
\* update that leaves the player on the exit cell and an enemy alive does
\* not set victory, and ends the game only if the player died.
C26_VictoryNeedsNoEnemy ==
    /\ [](victory => (player.alive /\ OnExit(player) /\ enemies = << >>))
    /\ [][/\ (~victory /\ victory') =>
                /\ last' = "update"
                /\ player'.alive /\ OnExit(player')
                /\ \A i \in 1 .. Len(enemies') : ~enemies'[i].alive
          /\ (UpdateStep /\ OnExit(player')
                /\ \E i \in 1 .. Len(enemies') : enemies'[i].alive) =>
                /\ ~victory'
                /\ game_over' => ~player'.alive]_vars

\* Victory on the level with enemies: the player alive on the exit, the
\* last enemy killed in this very update.
C26_VictoryAfterLastKill ==
    /\ victory /\ level_data = EnemyLevel
    /\ player.alive /\ OnExit(player)
    /\ enemies = << >> /\ dead_enemies # << >>

\* The player stands alive on the exit while an enemy lives: no victory.
C26_OnExitEnemyAlive ==
    /\ last = "update" /\ ~victory /\ ~game_over
    /\ player.alive /\ OnExit(player)
    /\ enemies # << >>

\* The frame lengths of the game scene with an enemy.
FrameTimes == { i[1] : i \in EnemyFineInputs }

\* The explosions of a list that a frame of dt leaves in the active set,
\* aged by dt.
RECURSIVE AgedActive(_, _)
AgedActive(exps, dt) ==
    IF exps = << >> THEN << >>
    ELSE (IF Head(exps).elapsed + dt < EXPLOSION_DURATION
          THEN << [Head(exps) EXCEPT !.elapsed = @ + dt] >> ELSE << >>)
         \o AgedActive(Tail(exps), dt)

\* C27: every explosion of the active set has an elapsed time below the
\* duration; an update of dt keeps exactly those whose elapsed time stays
\* below the duration, aged by dt, and adds the new ones with an elapsed
\* time of zero; and every explosion that was in the active set when the
\* update began has been tested in it against the alive player and every
\* alive enemy at the positions they moved to (a hit player is dead after
\* the update, no surviving enemy stands in a hit position), whether or
\* not the update then removes the explosion.
C27_ActiveWhileYoungAndTested ==
    /\ [](\A i \in 1 .. Len(explosions) :
            explosions[i].elapsed >= 0 /\ explosions[i].elapsed < EXPLOSION_DURATION)
    /\ [][UpdateStep =>
            /\ \E dt \in FrameTimes :
                  explosions' = AgedActive(explosions, dt) \o new_explosions'
            /\ \A i \in 1 .. Len(new_explosions') : new_explosions'[i].elapsed = 0
            /\ \A i \in 1 .. Len(explosions) :
                  /\ (player.alive /\ check_hit_position(explosions[i], player'.x,
                                           player'.y, PlayerRadius * 7))
                        => ~player'.alive
                  /\ \A k \in 1 .. Len(enemies') :
                        ~check_hit_position(explosions[i], enemies'[k].x,
                                            enemies'[k].y, EnemyRadius * 8)]_vars

\* An enemy was killed in the update that removed the explosion.
C27_KilledBeforeRemoval ==
    /\ level_data = EnemyLevel /\ last = "update"
    /\ dead_enemies # << >>
    /\ explosions = << >>

\* An explosion has survived an update, with the player and the enemy
\* alive.
C27_SecondFrame ==
    /\ level_data = EnemyLevel /\ last = "update"
    /\ \E i \in 1 .. Len(explosions) : explosions[i].elapsed > 0
    /\ player.alive /\ enemies # << >>

\* The report of check_circle_to_grid for a circle at the pixel (x, y).
ReportAt(x, y, radius10) ==
    check_circle_to_grid(tiles, grid_bombs, x, y, radius10, TRUE)

\* C31: from a start position without a collision report, the position
\* resolve_collision returns has no collision report either (same radius,
\* bombs checked), for an enemy's radius and for the player's.
C31_ResolvedPositionFree ==
    (q.kind = "move" /\ r.done) =>
        /\ Report(0, 0, EnemyRadius * 10) = CT_NONE
              => ReportAt(r.resolve.x, r.resolve.y, EnemyRadius * 10) = CT_NONE
        /\ Report(0, 0, PlayerRadius * 8) = CT_NONE
              => ReportAt(r.resolve_player.x, r.resolve_player.y,
                          PlayerRadius * 8) = CT_NONE

\* The divergence: a diagonal displacement blocked by a wall at its target,
\* free on each axis alone; the position returned is the blocked target.
C31_BlockedDiagonalReturned ==
    /\ q.kind = "move" /\ r.done
    /\ Mv[1] # 0 /\ Mv[2] # 0
    /\ grid_bombs = {}
    /\ Report(0, 0, EnemyRadius * 10) = CT_NONE
    /\ Report(Mv[1], 0, EnemyRadius * 10) = CT_NONE
    /\ Report(0, Mv[2], EnemyRadius * 10) = CT_NONE
    /\ Report(Mv[1], Mv[2], EnemyRadius * 10) = CT_WALL
    /\ r.resolve.x = q.x + Mv[1] /\ r.resolve.y = q.y + Mv[2]

\* C32: with no bomb on the player's own tile, Player._update_movement moves
\* the player to the position resolve_collision returns for the same start,
\* displacement, radius and grid.
C32_PlayerMovesAsResolved ==
    (q.kind = "move" /\ r.done /\ PlayerTile(player) \notin grid_bombs) =>
        /\ r.player.x = r.resolve_player.x
        /\ r.player.y = r.resolve_player.y

\* The same on a grid without any bomb.
C32_PlayerMovesAsResolvedNoBombs ==
    (q.kind = "move" /\ r.done /\ grid_bombs = {}) =>
        /\ r.player.x = r.resolve_player.x
        /\ r.player.y = r.resolve_player.y

\* The player was moved, against a wall that its circle now overlaps, where
\* resolve_collision keeps the start position.
C32_PlayerOverlapsWall ==
    /\ q.kind = "move" /\ r.done
    /\ PlayerTile(player) \notin grid_bombs
    /\ r.resolve_player.x = q.x /\ r.resolve_player.y = q.y
    /\ << r.player.x, r.player.y >> # << q.x, q.y >>
    /\ check_circle_to_grid(tiles, grid_bombs, r.player.x, r.player.y,
                            PlayerRadius * 8, FALSE) = CT_WALL

\* The tile of a pixel and its four neighbours inside the grid.
TileAndNeighbours(x, y) ==
    LET c == pixel_to_grid(x, y)
    IN  { d \in Cells : Abs(d[1] - c[1]) + Abs(d[2] - c[2]) <= 1 }

\* The walls, and the bomb tiles, among them that a circle at (x, y)
\* overlaps by the closest-point test.
TouchedWalls(x, y, radius10) ==
    { d \in TileAndNeighbours(x, y) :
        /\ tiles[d] \in {HARD_WALL, SOFT_WALL}
        /\ _circle_overlaps_tile(x, y, radius10, d[1], d[2]) }
TouchedBombs(x, y, radius10) ==
    { d \in TileAndNeighbours(x, y) :
        /\ d \in grid_bombs
        /\ _circle_overlaps_tile(x, y, radius10, d[1], d[2]) }

\* C33: check_circle_to_grid reports a collision only when the circle
\* overlaps a wall or a bomb tile among its own tile and the four
\* neighbours; and a short cardinal displacement whose target overlaps no
\* wall and no bomb tile is carried out by resolve_collision.
C33_ReportsNeedOverlap ==
    (q.kind = "probe" /\ r.done) =>
        /\ r.type # CT_NONE =>
              (TouchedWalls(q.x, q.y, EnemyRadius * 10)
                 \cup TouchedBombs(q.x, q.y, EnemyRadius * 10)) # {}
        /\ \A d \in EnemyDirs :
              LET tx == q.x + d[1] * ProbeStep
                  ty == q.y + d[2] * ProbeStep
              IN  (TouchedWalls(tx, ty, EnemyRadius * 10)
                     \cup TouchedBombs(tx, ty, EnemyRadius * 10)) = {}
                    => d \in r.moves

\* The same for the walls alone: a report with the bombs left out implies an
\* overlapped wall.
C33_WallReportsNeedOverlap ==
    (q.kind = "probe" /\ r.done) =>
        /\ r.walls # CT_NONE => TouchedWalls(q.x, q.y, EnemyRadius * 10) # {}
        /\ r.type = CT_WALL => TouchedWalls(q.x, q.y, EnemyRadius * 10) # {}

\* The divergence: an enemy's circle inside its tile, a bomb on a
\* neighbouring tile that it does not overlap; a bomb collision is reported
\* and resolve_collision allows no short move, not even away from the bomb.
C33_StuckNextToBomb ==
    /\ q.kind = "probe" /\ r.done
    /\ r.type = CT_BOMB
    /\ TouchedBombs(q.x, q.y, EnemyRadius * 10) = {}
    /\ TouchedWalls(q.x, q.y, EnemyRadius * 10) = {}
    /\ r.moves = {}
    /\ \E d \in EnemyDirs :
          LET c == pixel_to_grid(q.x, q.y)
          IN  /\ << c[1] - d[1], c[2] - d[2] >> \in grid_bombs
              /\ tiles[<< c[1] + d[1], c[2] + d[2] >>] = EMPTY
              /\ << c[1] + d[1], c[2] + d[2] >> \notin grid_bombs

(***************************************************************************)
(* Properties of the enemies' decisions.                                   *)
(***************************************************************************)
\* A frame of the chasing / of any enemy has been run.
ChaseRan == q.kind = "enemy" /\ r.done /\ q.enemy_data.type = "chase"
EnemyRan == q.kind = "enemy" /\ r.done

\* The Manhattan distance in tiles from an enemy to the player.
TileDistance(e) == Abs(e.grid_x - player.grid_x) + Abs(e.grid_y - player.grid_y)

\* A tile is inside the grid, open and holds no bomb.
OpenTile(c) == c \in Cells /\ tiles[c] \in {EMPTY, EXIT} /\ c \notin grid_bombs

\* The cardinal directions whose destination tile, seen from the tile of
\* enemy e, is open and bomb-free.
OpenDirs(e) ==
    { d \in EnemyDirs : OpenTile(<< e.grid_x + d[1], e.grid_y + d[2] >>) }

\* The Wanderer rule applied to enemy e permits heading d.
WandererRule(e, d) ==
    IF e.direction # << 0, 0 >> /\ e.direction \in OpenDirs(e)
    THEN d = e.direction
    ELSE OpenDirs(e) # {} => d \in OpenDirs(e)

\* C34: a chasing enemy whose distance to the player exceeds the chase
\* range of its level entry decides its heading by the Wanderer rule: the
\* current heading while the tile ahead is open and bomb-free, otherwise a
\* direction whose destination tile is open and bomb-free.
C34_WandersBeyondRange ==
    (ChaseRan /\ TileDistance(r.before) > q.enemy_data.chase_range) =>
        WandererRule(r.before, enemies[1].decided)

\* The same beyond the range the enemy really carries.
C34_WandersBeyondOwnRange ==
    (ChaseRan /\ TileDistance(r.before) > r.before.chase_range) =>
        WandererRule(r.before, enemies[1].decided)

\* Beyond the range it carries, the enemy picks a direction whose
\* destination tile is open and bomb-free whenever there is one.
C34_PicksOpenTileBeyondOwnRange ==
    (ChaseRan /\ TileDistance(r.before) > r.before.chase_range) =>
        (OpenDirs(r.before) # {} => enemies[1].decided \in OpenDirs(r.before))

\* The divergences: beyond its range the enemy turned although the tile
\* ahead was open and bomb-free; an enemy configured with a range of 2
\* re-targeted on a player further away.
C34_TurnedWithOpenTileAhead ==
    /\ ChaseRan /\ TileDistance(r.before) > r.before.chase_range
    /\ r.before.direction # << 0, 0 >>
    /\ r.before.direction \in OpenDirs(r.before)
    /\ enemies[1].decided # r.before.direction
    /\ enemies[1].decided \in OpenDirs(r.before)
C34_ChasesBeyondConfiguredRange ==
    /\ ChaseRan /\ TileDistance(r.before) > q.enemy_data.chase_range
    /\ r.before.chase_range = ChaseRangeDefault
    /\ r.before.last_player_pos = NoCell
    /\ enemies[1].last_player_pos = << player.grid_x, player.grid_y >>
    /\ ~WandererRule(r.before, enemies[1].decided)

\* The last frame re-targeted: the player was within the range the enemy
\* carries and the path timer was due, or no target was recorded yet.
Retargeted ==
    /\ ChaseRan /\ TileDistance(r.before) <= r.before.chase_range
    /\ \/ r.before.last_player_pos = NoCell
       \/ r.before.path_timer + r.before.move_timer + r.dt >= 300

\* The forward probe of enemy e in direction d: the tile of the pixel
\* radius + 10 ahead is inside the grid, open and bomb-free.
ProbeOpen(e, d) ==
    LET px == e.x + d[1] * (EnemyRadius + 10) - offset_x
        py == e.y + d[2] * (EnemyRadius + 10) - offset_y
    IN  /\ px >= 0 /\ py >= 0
        /\ OpenTile(<< px \div TILE_SIZE, py \div TILE_SIZE >>)

\* The first cardinal direction, in the order up, down, left, right, whose
\* probe is open; the zero vector if there is none.
FirstOpenCardinal(e) ==
    IF ProbeOpen(e, <<0, -1>>) THEN <<0, -1>>
    ELSE IF ProbeOpen(e, <<0, 1>>) THEN <<0, 1>>
    ELSE IF ProbeOpen(e, <<-1, 0>>) THEN <<-1, 0>>
    ELSE IF ProbeOpen(e, <<1, 0>>) THEN <<1, 0>>
    ELSE <<0, 0>>

\* The direction of the greedy rule with first axis a and second axis b
\* (1 = horizontal, 2 = vertical).
Greedy(e, a, b) ==
    LET toward == << << Sgn(player.grid_x - e.grid_x), 0 >>,
                     << 0, Sgn(player.grid_y - e.grid_y) >> >>
    IN  IF toward[a] # << 0, 0 >> /\ ProbeOpen(e, toward[a]) THEN toward[a]
        ELSE IF toward[b] # << 0, 0 >> /\ ProbeOpen(e, toward[b]) THEN toward[b]
        ELSE FirstOpenCardinal(e)

\* C35: a chasing enemy that re-targets decides for the direction toward
\* the player along the axis of the larger distance if its probe is open,
\* otherwise along the other axis if that probe is open, otherwise for the
\* first open cardinal direction, otherwise for the zero vector; with equal
\* distances either axis may come first.
C35_GreedyAxisPriority ==
    Retargeted =>
        LET e == r.before
            adx == Abs(player.grid_x - e.grid_x)
            ady == Abs(player.grid_y - e.grid_y)
        IN  /\ adx > ady => enemies[1].decided = Greedy(e, 1, 2)
            /\ ady > adx => enemies[1].decided = Greedy(e, 2, 1)
            /\ adx = ady => enemies[1].decided \in { Greedy(e, 1, 2), Greedy(e, 2, 1) }

\* A re-target with the probe toward the player on the axis of the larger
\* distance blocked: the enemy took the other axis.
C35_FellBackToOtherAxis ==
    /\ Retargeted
    /\ Abs(player.grid_x - r.before.grid_x) > Abs(player.grid_y - r.before.grid_y)
    /\ player.grid_y # r.before.grid_y
    /\ ~ProbeOpen(r.before, << Sgn(player.grid_x - r.before.grid_x), 0 >>)
    /\ enemies[1].decided = << 0, Sgn(player.grid_y - r.before.grid_y) >>

\* A re-target that took the axis of the larger distance, the vertical one.
C35_LargerAxisFirst ==
    /\ Retargeted
    /\ Abs(player.grid_y - r.before.grid_y) > Abs(player.grid_x - r.before.grid_x)
    /\ player.grid_x # r.before.grid_x
    /\ enemies[1].decided = << 0, Sgn(player.grid_y - r.before.grid_y) >>

\* The heading an enemy decided for in the last frame: the direction
\* returned for a chasing enemy; for a basic enemy its direction, which
\* _move changes only from one non-zero direction to another.
Decided == IF q.enemy_data.type = "chase" THEN enemies[1].decided
           ELSE enemies[1].direction

\* C36: an enemy whose four neighbouring tiles are walls, outside the grid
\* or bomb-occupied decides for the zero vector and keeps its position.
C36_EnclosedStaysPut ==
    (EnemyRan /\ OpenDirs(r.before) = {}) =>
        /\ Decided = << 0, 0 >>
        /\ enemies[1].x = r.before.x /\ enemies[1].y = r.before.y

\* The same for the basic enemy alone.
C36_EnclosedWandererStaysPut ==
    (EnemyRan /\ q.enemy_data.type = "basic" /\ OpenDirs(r.before) = {}) =>
        /\ Decided = << 0, 0 >>
        /\ enemies[1].x = r.before.x /\ enemies[1].y = r.before.y

\* The divergence: a chasing enemy enclosed by walls, without a heading
\* before the frame, decided for a direction and moved.
C36_EnclosedChaserMoved ==
    /\ ChaseRan /\ OpenDirs(r.before) = {}
    /\ grid_bombs = {} /\ TileDistance(r.before) > 0
    /\ r.before.direction = << 0, 0 >>
    /\ enemies[1].decided # << 0, 0 >>
    /\ << enemies[1].x, enemies[1].y >> # << r.before.x, r.before.y >>

(***************************************************************************)
(* Properties of whole frames: pause, end of the game, exit, limits        *)
(***************************************************************************)
PausedFrame == Tick(0, <<0, 0>>, FALSE)

SameEnemyPlaces ==
    Len(enemies') = Len(enemies) =>
      \A i \in 1 .. Len(enemies) :
         /\ enemies'[i].x = enemies[i].x
         /\ enemies'[i].y = enemies[i].y

SameEnemyDecisions ==
    Len(enemies') = Len(enemies) =>
      \A i \in 1 .. Len(enemies) :
         /\ enemies'[i].move_timer = enemies[i].move_timer
         /\ enemies'[i].direction = enemies[i].direction

\* C37: a frame with zero delta-time and no bomb request leaves every bomb
\* fuse, explosion timer, effect timer, enemy decision timer and heading,
\* entity position and tile kind unchanged, so that no bomb explodes and no
\* explosion expires in it.
C37_PausedFrameChangesNothing ==
    [][PausedFrame =>
         /\ bombs' = bombs
         /\ explosions' = explosions
         /\ effects' = effects
         /\ tiles' = tiles
         /\ player'.x = player.x /\ player'.y = player.y
         /\ SameEnemyPlaces
         /\ SameEnemyDecisions]_vars

\* What the paused frame does keep: fuses, explosion timers, effect timers,
\* tiles and the places of the player and of the enemies.
C37_PausedFrameKeepsTimersAndPlaces ==
    [][PausedFrame =>
         /\ bombs' = bombs
         /\ explosions' = explosions
         /\ effects' = effects
         /\ tiles' = tiles
         /\ player'.x = player.x /\ player'.y = player.y
         /\ SameEnemyPlaces]_vars

\* The enemy's decision timer stands one paused frame short of a new heading:
\* unpaused frames leave it at 0 or at 0.336 s, so paused frames advanced it.
C37_TimerRanWhilePaused ==
    /\ last = "update"
    /\ Len(enemies) = 1
    /\ enemies[1].move_timer = 496
    /\ enemies[1].direction # <<0, 0>>

Ended == game_over \/ victory

\* C38: game_over and victory are never both true, and from a state in which
\* either is set no frame changes anything of the simulation.
C38_EndIsExclusiveAndFrozen ==
    /\ [](~(game_over /\ victory))
    /\ [][~Ended]_vars

\* The game was won by a frame: the player stands alive on the exit with no
\* enemy left, and the frames offered afterwards find victory set.
C38_WonAndStopped ==
    /\ victory /\ ~game_over
    /\ last = "update"
    /\ player.alive /\ enemies = << >>
    /\ dead_enemies # << >>

\* The game was lost by a frame that killed the player on the exit tile.
C38_LostOnTheExit ==
    /\ game_over /\ ~victory
    /\ ~player.alive
    /\ check_victory_dead_too(player, exit_pos)

ExitCellsRead ==
    /\ q.kind = "exit"
    /\ r.load # NoCell /\ r.destroy # NoCell /\ r.victory # NoCell

\* C39: for every level description, also one without an exit entry or with
\* an exit entry lacking its row or column, the cell the load makes the exit,
\* the cell that turns into the exit when its soft wall is destroyed and the
\* cell the victory test looks at are the same cell.
C39_OneExitCell ==
    ExitCellsRead => r.load = r.destroy /\ r.destroy = r.victory

\* With a row in the exit entry the three cells are one.
C39_OneExitCellWithRow ==
    (ExitCellsRead /\ "exit" \in q.level.keys /\ "row" \in q.level.exit.keys)
        => r.load = r.destroy /\ r.destroy = r.victory

\* The frame and the victory test always agree with each other.
C39_FrameAndVictoryAgree ==
    ExitCellsRead => r.destroy = r.victory

\* A level without an exit entry: the load hides the exit on one cell, the
\* frames open and test another.
C39_NoExitEntryTwoCells ==
    /\ ExitCellsRead
    /\ q.level.keys = {}
    /\ r.hidden
    /\ r.load # r.victory
    /\ r.destroy = r.victory

BonusApplied == q.kind = "bonus" /\ r.done

\* C40: whatever power-ups were collected, after a frame the player's bomb
\* count is at most MAX_BOMB_COUNT and its blast power at most MAX_BOMB_POWER.
C40_BonusWithinLimits ==
    BonusApplied =>
        /\ r.player.bomb_count <= MAX_BOMB_COUNT
        /\ r.player.bomb_power <= MAX_BOMB_POWER

\* The limits hold as long as the collected power-ups alone stay below them.
C40_WithinLimitsWhileBonusesFit ==
    (BonusApplied
       /\ INITIAL_BOMB_COUNT + r.bonus.bomb_bonus <= MAX_BOMB_COUNT
       /\ INITIAL_BOMB_POWER + r.bonus.fire_bonus <= MAX_BOMB_POWER)
        => /\ r.player.bomb_count <= MAX_BOMB_COUNT
           /\ r.player.bomb_power <= MAX_BOMB_POWER

\* Three bomb power-ups are in effect and the frame gave the player a fourth
\* bomb.
C40_FourthBomb ==
    /\ BonusApplied
    /\ Len(effects) = 3
    /\ \A i \in 1 .. Len(effects) : effects[i].bomb_bonus = 1
    /\ r.player.bomb_count = MAX_BOMB_COUNT + 1


=============================================================================
